---- MODULE Spec2Model ----
(***************************************************************************)
(* Model of the Google Photos picker flow of Get-GPhotos-Data:             *)
(*   - photos/picker.py    GooglePhotosPicker (remote session client and   *)
(*                         the pagination loop)                            *)
(*   - widgets/google_photos.py  GooglePhotosView (session flow driven by  *)
(*                         the refresh request, the poll timer and the     *)
(*                         worker-pool callbacks)                          *)
(*   - core/workers.py     WorkerPool / Worker / WorkContext (not part of  *)
(*                         the source tree at hand; modelled from the      *)
(*                         written contract of the task executor)          *)
(*   - core/file_manager.py, core/settings.py  the recent-files list of    *)
(*                         FileManager, kept in QSettings                  *)
(***************************************************************************)
EXTENDS Integers, Sequences, FiniteSets, TLC

(***************************************************************************)
(* Bounds of the model and constants of the program.                       *)
(***************************************************************************)
MaxTasks == 3          \* handles the worker pool hands out per behaviour
TableLen == 2          \* explicit pages of a server page table
MaxItemsPerPage == 3   \* items on one server page
MaxCalls == 3          \* HTTP requests of a stand-alone client run
MaxTokens == 2         \* access tokens that expire in such a run
MaxImages == 1         \* image loads the user starts per behaviour
MaxPageSize == 102     \* largest page_size a caller asks for
MaxPaths == 3          \* distinct files the user opens
page_size_cap == 100   \* picker.py: the 100 of min(page_size, 100)
max_pages == 100       \* picker.py: safety limit of the pagination loop
MAX_POLLS == 300       \* google_photos.py: poll budget of the timer
default_max_recent == 10   \* settings.py: get_max_recent_files default
min_max_recent == 1        \* settings.py: lower bound of the clamp
max_max_recent == 100      \* settings.py: upper bound of the clamp

(***************************************************************************)
(* Python values.  None (or an absent key) is a record with present =      *)
(* FALSE; a string is present and carries the number that names it, the    *)
(* empty string carries 0.  Truthy is Python's truth test on such a value. *)
(***************************************************************************)
PyNone == [present |-> FALSE, val |-> 0]
PyEmpty == [present |-> TRUE, val |-> 0]
PyStr(k) == [present |-> TRUE, val |-> k]
Truthy(t) == t.present /\ t.val > 0

(***************************************************************************)
(* The media-items endpoint.  A server is a page table: head[i] describes  *)
(* page i (number of items, kind of nextPageToken), pages past the table   *)
(* repeat its last row, and the request for page `fail` raises (0: none).  *)
(* The token handed out by page i names page i+1; a request without a      *)
(* pageToken parameter is answered with page 1.  Item j of page i is the   *)
(* pair <<i, j>>.                                                          *)
(***************************************************************************)
NextKinds == {"none", "empty", "tok"}
PageRows == [n : 0..MaxItemsPerPage, next : NextKinds]
Servers == [head : [1..TableLen -> PageRows], fail : 0..(TableLen + 1)]

PageRow(server, i) ==
    IF i <= TableLen THEN server.head[i] ELSE server.head[TableLen]

PageItems(server, i) == [j \in 1..PageRow(server, i).n |-> <<i, j>>]

PageNextToken(server, i) ==
    CASE PageRow(server, i).next = "tok"   -> PyStr(i + 1)
      [] PageRow(server, i).next = "empty" -> PyEmpty
      [] OTHER                             -> PyNone

\* GooglePhotosPicker.get_selected_media_items: the pageToken parameter is
\* sent only for a truthy token; the response is the page's JSON, or the
\* request raises (raise_for_status).
get_selected_media_items(server, page_token) ==
    LET sent == IF Truthy(page_token) THEN page_token ELSE PyNone
        i    == IF sent.present THEN sent.val ELSE 1
    IN  IF server.fail = i
        THEN [raised |-> TRUE, sent |-> sent, page |-> i,
              mediaItems |-> <<>>, nextPageToken |-> PyNone]
        ELSE [raised |-> FALSE, sent |-> sent, page |-> i,
              mediaItems |-> PageItems(server, i),
              nextPageToken |-> PageNextToken(server, i)]

\* State of get_all_selected_media_items at its entry.  `requests` is the
\* sequence of pageToken parameters sent so far, `pages` the pages answered,
\* `log` the warnings written; pc is "loop" while the function runs.
PaginateInit ==
    [pc |-> "loop", all_items |-> <<>>, page_token |-> PyNone,
     page_count |-> 0, requests |-> <<>>, pages |-> <<>>, log |-> <<>>]

\* The code after the while loop: the limit warning and the return.
PaginateReturn(st) ==
    IF st.page_count >= max_pages
    THEN [st EXCEPT !.pc = "returned", !.log = Append(@, "limit")]
    ELSE [st EXCEPT !.pc = "returned"]

\* PaginateStep with the loop condition off by one (page_count <= max_pages).
PaginateStep_OneMore(server, st) ==
    IF ~(st.page_count <= max_pages) THEN PaginateReturn(st)
    ELSE
      LET resp == get_selected_media_items(server, st.page_token)
          st0  == [st EXCEPT !.requests = Append(@, resp.sent),
                             !.pages = Append(@, resp.page)]
      IN  IF resp.raised THEN [st0 EXCEPT !.pc = "raised"]
          ELSE
            LET items == resp.mediaItems
                st1   == [st0 EXCEPT !.all_items = @ \o items,
                                     !.page_token = resp.nextPageToken]
            IN  IF ~Truthy(st1.page_token) THEN PaginateReturn(st1)
                ELSE IF Len(items) = 0
                     THEN PaginateReturn(
                              [st1 EXCEPT !.log = Append(@, "anomaly")])
                     ELSE [st1 EXCEPT !.page_count = @ + 1]

\* PaginateStep testing the new token but never storing it for the next
\* request.
PaginateStep_StaleToken(server, st) ==
    IF ~(st.page_count < max_pages) THEN PaginateReturn(st)
    ELSE
      LET resp == get_selected_media_items(server, st.page_token)
          st0  == [st EXCEPT !.requests = Append(@, resp.sent),
                             !.pages = Append(@, resp.page)]
      IN  IF resp.raised THEN [st0 EXCEPT !.pc = "raised"]
          ELSE
            LET items == resp.mediaItems
                st1   == [st0 EXCEPT !.all_items = @ \o items]
            IN  IF ~Truthy(resp.nextPageToken) THEN PaginateReturn(st1)
                ELSE IF Len(items) = 0
                     THEN PaginateReturn(
                              [st1 EXCEPT !.log = Append(@, "anomaly")])
                     ELSE [st1 EXCEPT !.page_count = @ + 1]

\* PaginateStep without the stop at an empty page that carries a token.
PaginateStep_NoAnomalyStop(server, st) ==
    IF ~(st.page_count < max_pages) THEN PaginateReturn(st)
    ELSE
      LET resp == get_selected_media_items(server, st.page_token)
          st0  == [st EXCEPT !.requests = Append(@, resp.sent),
                             !.pages = Append(@, resp.page)]
      IN  IF resp.raised THEN [st0 EXCEPT !.pc = "raised"]
          ELSE
            LET items == resp.mediaItems
                st1   == [st0 EXCEPT !.all_items = @ \o items,
                                     !.page_token = resp.nextPageToken]
            IN  IF ~Truthy(st1.page_token) THEN PaginateReturn(st1)
                ELSE [st1 EXCEPT !.page_count = @ + 1]

\* One evaluation of the loop condition of get_all_selected_media_items and,
\* when it holds, one iteration of the loop body.
PaginateStep(server, st) ==
    IF ~(st.page_count < max_pages) THEN PaginateReturn(st)
    ELSE
      LET resp == get_selected_media_items(server, st.page_token)
          st0  == [st EXCEPT !.requests = Append(@, resp.sent),
                             !.pages = Append(@, resp.page)]
      IN  IF resp.raised THEN [st0 EXCEPT !.pc = "raised"]
          ELSE
            LET items == resp.mediaItems
                st1   == [st0 EXCEPT !.all_items = @ \o items,
                                     !.page_token = resp.nextPageToken]
            IN  IF ~Truthy(st1.page_token) THEN PaginateReturn(st1)
                ELSE IF Len(items) = 0
                     THEN PaginateReturn(
                              [st1 EXCEPT !.log = Append(@, "anomaly")])
                     ELSE [st1 EXCEPT !.page_count = @ + 1]

VARIABLES
    picker,              \* self.picker is set
    active_worker,       \* self.active_worker: a handle, 0 for None
    current_session_id,  \* self.current_session_id: an id, 0 for None
    poll_timer,          \* self.poll_timer: index into timers, 0 for None
    timers,              \* the QTimer objects with their poll closures
    media_items,         \* self.media_items
    dialog_open,         \* the flow's progress dialog is open
    tasks,               \* the pool's workers, indexed by handle
    queue,               \* results in flight from workers to the main thread
    sessions,            \* sessions alive on the server
    next_session,        \* id the server gives to the next session
    delete_calls,        \* session ids of the delete_session calls issued
    outcome,             \* how the latest flow ended, "none" while it runs
    last,                \* the handler that ran last and what it did
    pf_server,           \* server of a stand-alone pagination run
    pf,                  \* state of a stand-alone pagination run
    credentials,         \* GooglePhotosPicker.credentials
    authorization,       \* token of the session's Authorization header
    http,                \* HTTP requests the client has issued
    call,                \* the client operation called last and how it ended
    qs                   \* Settings._qs: the stored recent-files values

flowvars == <<picker, active_worker, current_session_id, poll_timer, timers,
              media_items, dialog_open, tasks, queue, sessions, next_session,
              delete_calls, outcome, last>>

authvars == <<credentials, authorization, http, call>>

\* The variables of the stand-alone runs of the client.
pfvars == <<pf_server, pf, credentials, authorization, http, call, qs>>

vars == <<picker, active_worker, current_session_id, poll_timer, timers,
          media_items, dialog_open, tasks, queue, sessions, next_session,
          delete_calls, outcome, last, pf_server, pf, credentials,
          authorization, http, call, qs>>

(***************************************************************************)
(* Session descriptors and create-session responses of the server.         *)
(***************************************************************************)
SESSION_STATUS_UNSPECIFIED == "SESSION_STATUS_UNSPECIFIED"
SESSION_STATUS_ACTIVE == "SESSION_STATUS_ACTIVE"
SESSION_STATUS_COMPLETE == "SESSION_STATUS_COMPLETE"
SESSION_STATUS_EXPIRED == "SESSION_STATUS_EXPIRED"

\* "" is a descriptor without a status key, "OTHER" an unrecognised string.
Statuses == {"", "OTHER", SESSION_STATUS_UNSPECIFIED, SESSION_STATUS_ACTIVE,
             SESSION_STATUS_COMPLETE, SESSION_STATUS_EXPIRED}

\* What get_session can give: a descriptor, or an exception.
SessionResponses ==
    {r \in [raised : BOOLEAN, mediaItemsSet : BOOLEAN, status : Statuses] :
        r.raised => (~r.mediaItemsSet /\ r.status = "")}

NoResponse == [raised |-> FALSE, mediaItemsSet |-> FALSE, status |-> ""]

\* What the POST of create_session can give.
CreateKinds == {"ok", "http_error", "error_payload", "no_id", "no_uri",
                "empty_id", "empty_uri"}

\* The JSON of a create response of the given kind for a fresh session id.
CreateJson(kind, sid) ==
    [http_error |-> kind = "http_error",
     error      |-> kind = "error_payload",
     id         |-> CASE kind = "no_id"    -> PyNone
                      [] kind = "empty_id" -> PyEmpty
                      [] OTHER             -> PyStr(sid),
     pickerUri  |-> CASE kind = "no_uri"    -> PyNone
                      [] kind = "empty_uri" -> PyEmpty
                      [] OTHER              -> PyStr(sid)]

NoJson == CreateJson("no_id", 0)

\* create_session_raises without the test for the pickerUri key.
create_session_raises_NoUriTest(json) ==
    \/ json.http_error
    \/ json.error
    \/ ~json.id.present

\* GooglePhotosPicker.create_session after the POST: raise_for_status, the
\* embedded error, the two required keys.  TRUE when it raises.
create_session_raises(json) ==
    \/ json.http_error
    \/ json.error
    \/ ~json.id.present
    \/ ~json.pickerUri.present

(***************************************************************************)
(* Servers chosen for the fetch task of a flow: an empty or a 3-item first *)
(* page with any kind of token, then one last page; the first or the       *)
(* second request may fail.                                                *)
(***************************************************************************)
LastRow == [n |-> 1, next |-> "none"]

\* The server of a worker that has not chosen one.
NoServer == [head |-> [i \in 1..TableLen |-> LastRow], fail |-> 0]

FlowServers ==
    {[head |-> [i \in 1..TableLen |-> IF i = 1 THEN r ELSE LastRow],
      fail |-> f] : r \in [n : {0, 3}, next : NextKinds], f \in 0..2}

(***************************************************************************)
(* The two work requests of the flow, as built by on_refresh_data and by   *)
(* the poll closure: the callback wired to each slot, "none" for a slot    *)
(* left out.                                                               *)
(***************************************************************************)
\* CreateRequest with the on_cancel slot left out.
CreateRequest_NoCancelSlot ==
    [fn |-> "work", on_done |-> "done", on_error |-> "error",
     on_progress |-> "progress", on_cancel |-> "none"]

CreateRequest ==
    [fn |-> "work", on_done |-> "done", on_error |-> "error",
     on_progress |-> "progress", on_cancel |-> "cancelled"]

\* FetchRequest with the on_error slot left out.
FetchRequest_NoErrorSlot ==
    [fn |-> "fetch_items", on_done |-> "items_done",
     on_error |-> "none", on_progress |-> "none", on_cancel |-> "none"]

FetchRequest ==
    [fn |-> "fetch_items", on_done |-> "items_done",
     on_error |-> "items_error", on_progress |-> "none", on_cancel |-> "none"]

\* The request built by _load_and_display_image.
ImageRequest ==
    [fn |-> "load_image", on_done |-> "image_loaded",
     on_error |-> "image_error", on_progress |-> "none", on_cancel |-> "none"]

(***************************************************************************)
(* The task executor (WorkerPool, Worker, WorkContext).                    *)
(***************************************************************************)
FinalPcs == {"returned", "raised", "cancelled"}

\* WorkerPool.submit: a new worker, started at once, with its flag cleared.
NewWorker(req, sid) ==
    [req |-> req, pc |-> "start", alive |-> TRUE, cancelled |-> FALSE,
     session_id |-> sid,
     json |-> NoJson, server |-> NoServer,
     st |-> PaginateInit, pixmap |-> FALSE, log |-> <<>>]

\* Worker.cancel: sets the flag of a live handle, nothing else.
WorkerCancel(ts, h) ==
    IF ts[h].alive THEN [ts EXCEPT ![h].cancelled = TRUE] ELSE ts

\* Post that puts the message in front of those waiting.
Post_Front(q, h, type, percent) ==
    <<[h |-> h, type |-> type, percent |-> percent]>> \o q

\* A worker hands a progress report or its outcome to the main thread.
Post(q, h, type, percent) ==
    Append(q, [h |-> h, type |-> type, percent |-> percent])

\* The slot of the request a message is for.
SlotOf(req, type) ==
    CASE type = "progress" -> req.on_progress
      [] type = "done"     -> req.on_done
      [] type = "error"    -> req.on_error
      [] OTHER             -> req.on_cancel

Terminal == {"done", "error", "cancel"}

(***************************************************************************)
(* Effects of a handler, kept for the step that made them.                 *)
(***************************************************************************)
Fx(op, what, arg) == [op |-> op, what |-> what, arg |-> arg]

Did(op, fx) ==
    [op |-> op, fx |-> fx, resp |-> NoResponse, timer |-> 0, count |-> 0,
     all_active |-> TRUE]

\* What QSettings holds under a key: nothing, a number (or its text), a
\* text that is no number, or a list of strings.
QAbsent == [type |-> "NoneType", val |-> 0, items |-> <<>>]
QInt(k) == [type |-> "int", val |-> k, items |-> <<>>]
QText == [type |-> "str", val |-> 0, items |-> <<>>]
QList(l) == [type |-> "list", val |-> 0, items |-> l]

\* A settings store without the two recent-files keys.
NoSettings == [recent_files |-> QAbsent, max_recent_files |-> QAbsent]

\* No client operation has been called.
NoCall == [op |-> "none", error |-> "none", refresh |-> "none"]

\* The credentials and the header as GooglePhotosPicker.__init__ leaves them:
\* valid, token 1 in the Authorization header.
NewCredentials == [token |-> 1, expired |-> FALSE, refresh_token |-> FALSE]

Init ==
    /\ picker \in BOOLEAN
    /\ active_worker = 0
    /\ current_session_id = 0
    /\ poll_timer = 0
    /\ timers = <<>>
    /\ media_items = <<>>
    /\ dialog_open = FALSE
    /\ tasks = <<>>
    /\ queue = <<>>
    /\ sessions = {}
    /\ next_session = 1
    /\ delete_calls = <<>>
    /\ outcome = "none"
    /\ last = Did("init", <<>>)
    /\ pf_server = NoServer
    /\ pf = PaginateInit
    /\ qs = NoSettings
    /\ credentials = NewCredentials
    /\ authorization = 1
    /\ http = <<>>
    /\ call = NoCall

(***************************************************************************)
(* GooglePhotosView: the handlers of the main thread.                      *)
(***************************************************************************)

\* on_authenticate, when authentication succeeds: a picker client is set.
on_authenticate ==
    /\ ~picker
    /\ picker' = TRUE
    /\ last' = Did("on_authenticate", <<>>)
    /\ UNCHANGED <<active_worker, current_session_id, poll_timer, timers,
                   media_items, dialog_open, tasks, queue, sessions,
                   next_session, delete_calls, outcome>>
    /\ UNCHANGED pfvars

\* RefreshBusy that never refuses.
RefreshBusy_Never == FALSE

\* RefreshBusy that looks at the session id only.
RefreshBusy_SessionOnly == current_session_id # 0

\* The re-entrancy test of on_refresh_data.
RefreshBusy == active_worker # 0 \/ current_session_id # 0

\* on_refresh_data: refuse without a picker client, refuse while a session
\* is active, otherwise open the progress dialog and submit the create task.
on_refresh_data ==
    /\ \/ /\ ~picker
          /\ last' = Did("on_refresh_data",
                         <<Fx("msgbox", "not_authenticated", 0)>>)
          /\ UNCHANGED <<active_worker, dialog_open, tasks, outcome>>
       \/ /\ picker
          /\ RefreshBusy
          /\ last' = Did("on_refresh_data",
                         <<Fx("msgbox", "already_active", 0)>>)
          /\ UNCHANGED <<active_worker, dialog_open, tasks, outcome>>
       \/ /\ picker
          /\ ~RefreshBusy
          /\ Len(tasks) + 2 <= MaxTasks
          /\ tasks' = Append(tasks, NewWorker(CreateRequest, 0))
          /\ active_worker' = Len(tasks) + 1
          /\ dialog_open' = TRUE
          /\ outcome' = "none"
          /\ last' = Did("on_refresh_data",
                         <<Fx("submit", "work", Len(tasks) + 1)>>)
    /\ UNCHANGED <<picker, current_session_id, poll_timer, timers,
                   media_items, queue, sessions, next_session, delete_calls>>
    /\ UNCHANGED pfvars

\* cancel_work, the slot of the progress dialog's canceled signal.
cancel_work ==
    /\ dialog_open
    /\ tasks' = IF active_worker # 0
                THEN WorkerCancel(tasks, active_worker)
                ELSE tasks
    /\ last' = Did("cancel_work",
                   IF active_worker # 0
                   THEN <<Fx("cancel", "worker", active_worker)>>
                   ELSE <<>>)
    /\ UNCHANGED <<picker, active_worker, current_session_id, poll_timer,
                   timers, media_items, dialog_open, queue, sessions,
                   next_session, delete_calls, outcome>>
    /\ UNCHANGED pfvars

\* Credentials.valid
CredValid(c) == c.token > 0 /\ ~c.expired

\* The image tasks submitted so far.
ImageTasks == {h \in DOMAIN tasks : tasks[h].req.fn = "load_image"}

\* _load_and_display_image, reached from the selection of a media item that
\* has a baseUrl: shows "Loading image..." and submits load_image; the
\* handle the pool returns is not kept.
_load_and_display_image ==
    /\ media_items # <<>>
    /\ Cardinality(ImageTasks) < MaxImages
    /\ tasks' = Append(tasks, NewWorker(ImageRequest, 0))
    /\ last' = Did("_load_and_display_image",
                   <<Fx("image_label", "loading", 0),
                     Fx("submit", "load_image", Len(tasks) + 1)>>)
    /\ UNCHANGED <<picker, active_worker, current_session_id, poll_timer,
                   timers, media_items, dialog_open, queue, sessions,
                   next_session, delete_calls, outcome>>
    /\ UNCHANGED pfvars

(***************************************************************************)
(* The work functions, run by the workers off the main thread.             *)
(***************************************************************************)

\* WorkCheckCancelled that goes on whatever the flag says.
WorkCheckCancelled_Ignored(t) == "create_session"

\* ctx.check_cancelled() in `work`: with the flag set the work function ends
\* there as cancelled, otherwise it goes on to create_session.
WorkCheckCancelled(t) ==
    IF t.cancelled THEN "cancelled" ELSE "create_session"

\* `work` of on_refresh_data: progress, check_cancelled, create_session,
\* progress, return.
CreateWork(h) ==
    LET t == tasks[h] IN
    /\ t.req.fn = "work"
    /\ \/ /\ t.pc = "start"
          /\ tasks' = [tasks EXCEPT ![h].pc = "check_cancelled"]
          /\ queue' = Post(queue, h, "progress", 50)
          /\ last' = Did("work", <<>>)
          /\ UNCHANGED <<sessions, next_session>>
       \/ /\ t.pc = "check_cancelled"
          /\ LET pc == WorkCheckCancelled(t) IN
               /\ tasks' = [tasks EXCEPT ![h].pc = pc]
               /\ queue' = IF pc = "cancelled"
                           THEN Post(queue, h, "cancel", 0)
                           ELSE queue
          /\ last' = Did("work", <<>>)
          /\ UNCHANGED <<sessions, next_session>>
       \/ /\ t.pc = "create_session"
          /\ \E kind \in CreateKinds :
               LET json    == CreateJson(kind, next_session)
                   created == ~json.http_error /\ ~json.error
                                /\ Truthy(json.id)
               IN  /\ IF created
                      THEN /\ sessions' = sessions \cup {next_session}
                           /\ next_session' = next_session + 1
                      ELSE UNCHANGED <<sessions, next_session>>
                   /\ IF create_session_raises(json)
                      THEN /\ tasks' = [tasks EXCEPT ![h].pc = "raised",
                                                     ![h].json = json]
                           /\ queue' = Post(queue, h, "error", 0)
                      ELSE /\ tasks' = [tasks EXCEPT ![h].pc = "progress100",
                                                     ![h].json = json]
                           /\ queue' = queue
                   /\ last' = Did("work",
                                  <<Fx("remote", "create_session", 0)>>)
       \/ /\ t.pc = "progress100"
          /\ tasks' = [tasks EXCEPT ![h].pc = "return"]
          /\ queue' = Post(queue, h, "progress", 100)
          /\ last' = Did("work", <<>>)
          /\ UNCHANGED <<sessions, next_session>>
       \/ /\ t.pc = "return"
          /\ tasks' = [tasks EXCEPT ![h].pc = "returned"]
          /\ queue' = Post(queue, h, "done", 0)
          /\ last' = Did("work", <<>>)
          /\ UNCHANGED <<sessions, next_session>>
    /\ UNCHANGED <<picker, active_worker, current_session_id, poll_timer,
                   timers, media_items, dialog_open, delete_calls,
                   outcome>>
    /\ UNCHANGED pfvars

\* FetchAfterProgress with a check_cancelled call before the pagination.
FetchAfterProgress_Checked(t) ==
    IF t.cancelled THEN "cancelled" ELSE "paginate"

\* What fetch_items does after its first progress report: the picker
\* instance is there, so it goes on to get_all_selected_media_items; the
\* cancelled flag is not looked at.
FetchAfterProgress(t) == "paginate"

\* FetchReturn that calls items_done itself instead of returning the items
\* to the executor.
FetchReturn_Inline(h) ==
    /\ tasks[h].pc = "return"
    /\ tasks' = [tasks EXCEPT ![h].pc = "returned",
                              ![h].log = Append(@, "done"),
                              ![h].alive = FALSE]
    /\ queue' = queue
    /\ dialog_open' = FALSE
    /\ media_items' = tasks[h].st.all_items
    /\ current_session_id' = 0
    /\ active_worker' = 0
    /\ outcome' = "done"
    /\ last' = Did("items_done",
                   <<Fx("msgbox", "loaded", Len(tasks[h].st.all_items))>>)
    /\ UNCHANGED <<picker, poll_timer, timers, next_session, sessions,
                   delete_calls>>
    /\ UNCHANGED pfvars

\* `return media_items` of fetch_items: the work function ends and its
\* result goes to the executor, which hands on_done to the main thread.
FetchReturn(h) ==
    /\ tasks[h].pc = "return"
    /\ tasks' = [tasks EXCEPT ![h].pc = "returned"]
    /\ queue' = Post(queue, h, "done", 0)
    /\ last' = Did("fetch_items", <<>>)
    /\ UNCHANGED <<picker, active_worker, current_session_id, poll_timer,
                   timers, media_items, dialog_open, next_session,
                   outcome, sessions, delete_calls>>
    /\ UNCHANGED pfvars

\* FetchAfterPages that cleans the session up also when a page request
\* raised.
FetchAfterPages_AlwaysDelete(st) ==
    CASE st.pc = "raised"   -> "delete_session"
      [] st.pc = "returned" -> "delete_session"
      [] OTHER              -> "paginate"

\* Where fetch_items stands after a step of get_all_selected_media_items:
\* an exception of a page request leaves fetch_items at once, a returned
\* list takes it on to delete_session, otherwise the loop goes on.
FetchAfterPages(st) ==
    CASE st.pc = "raised"   -> "raised"
      [] st.pc = "returned" -> "delete_session"
      [] OTHER              -> "paginate"

\* `fetch_items` of the poll closure: progress, the pagination loop,
\* delete_session, progress, return.
FetchWork(h) ==
    LET t == tasks[h] IN
    /\ t.req.fn = "fetch_items"
    /\ \/ /\ t.pc = "start"
          /\ \E s \in FlowServers :
               tasks' = [tasks EXCEPT ![h].pc = FetchAfterProgress(t),
                                      ![h].server = s]
          /\ queue' = IF FetchAfterProgress(t) = "cancelled"
                      THEN Post(Post(queue, h, "progress", 90), h, "cancel", 0)
                      ELSE Post(queue, h, "progress", 90)
          /\ last' = Did("fetch_items", <<>>)
          /\ UNCHANGED <<sessions, delete_calls>>
          /\ UNCHANGED <<picker, active_worker, current_session_id,
                         poll_timer, timers, media_items, dialog_open,
                         next_session, outcome>>
          /\ UNCHANGED pfvars
       \/ /\ t.pc = "paginate"
          /\ LET st == PaginateStep(t.server, t.st) IN
               /\ tasks' = [tasks EXCEPT
                              ![h].st = st,
                              ![h].pc = FetchAfterPages(st)]
               /\ queue' = IF FetchAfterPages(st) = "raised"
                           THEN Post(queue, h, "error", 0)
                           ELSE queue
          /\ last' = Did("fetch_items",
                         <<Fx("remote", "get_selected_media_items",
                              t.session_id)>>)
          /\ UNCHANGED <<sessions, delete_calls>>
          /\ UNCHANGED <<picker, active_worker, current_session_id,
                         poll_timer, timers, media_items, dialog_open,
                         next_session, outcome>>
          /\ UNCHANGED pfvars
       \/ /\ t.pc = "delete_session"
          /\ delete_calls' = Append(delete_calls, t.session_id)
          /\ \E ok \in BOOLEAN :
               IF ok
               THEN /\ sessions' = sessions \ {t.session_id}
                    /\ tasks' = [tasks EXCEPT ![h].pc = "progress100"]
                    /\ queue' = queue
               ELSE /\ sessions' = sessions
                    /\ tasks' = [tasks EXCEPT ![h].pc = "raised"]
                    /\ queue' = Post(queue, h, "error", 0)
          /\ last' = Did("fetch_items",
                         <<Fx("remote", "delete_session", t.session_id)>>)
          /\ UNCHANGED <<picker, active_worker, current_session_id,
                         poll_timer, timers, media_items, dialog_open,
                         next_session, outcome>>
          /\ UNCHANGED pfvars
       \/ /\ t.pc = "progress100"
          /\ tasks' = [tasks EXCEPT ![h].pc = "return"]
          /\ queue' = Post(queue, h, "progress", 100)
          /\ last' = Did("fetch_items", <<>>)
          /\ UNCHANGED <<sessions, delete_calls>>
          /\ UNCHANGED <<picker, active_worker, current_session_id,
                         poll_timer, timers, media_items, dialog_open,
                         next_session, outcome>>
          /\ UNCHANGED pfvars
       \/ FetchReturn(h)

\* ImageReturn that also clears the view's handle.
ImageReturn_ClearsWorker(h) ==
    /\ tasks[h].pc = "return"
    /\ tasks' = [tasks EXCEPT ![h].pc = "returned"]
    /\ queue' = Post(queue, h, "done", 0)
    /\ active_worker' = 0
    /\ last' = Did("load_image", <<>>)
    /\ UNCHANGED <<picker, current_session_id, poll_timer,
                   timers, media_items, dialog_open, next_session,
                   outcome, sessions, delete_calls, credentials>>
    /\ UNCHANGED <<pf_server, pf, qs, authorization, http, call>>

\* The `return` of load_image, with the pixmap or with None: the result goes
\* to the executor, which hands on_done to the main thread.
ImageReturn(h) ==
    /\ tasks[h].pc = "return"
    /\ tasks' = [tasks EXCEPT ![h].pc = "returned"]
    /\ queue' = Post(queue, h, "done", 0)
    /\ last' = Did("load_image", <<>>)
    /\ UNCHANGED <<picker, active_worker, current_session_id, poll_timer,
                   timers, media_items, dialog_open, next_session,
                   outcome, sessions, delete_calls, credentials>>
    /\ UNCHANGED <<pf_server, pf, qs, authorization, http, call>>

\* `load_image` of _load_and_display_image: progress, a refresh of the
\* client's credentials when they are expired and have a refresh token, the
\* GET of the image, progress, the decoding of the pixmap, progress, return;
\* any exception is logged and makes it return None.  The steps are the
\* first progress report, the part from the refresh to the last report, and
\* the return.
LoadImageWork(h) ==
    LET t == tasks[h] IN
    /\ t.req.fn = "load_image"
    /\ \/ /\ t.pc = "start"
          /\ tasks' = [tasks EXCEPT ![h].pc = "get"]
          /\ queue' = Post(queue, h, "progress", 50)
          /\ last' = Did("load_image", <<>>)
          /\ UNCHANGED <<picker, active_worker, current_session_id,
                         poll_timer, timers, media_items, dialog_open,
                         next_session, outcome, sessions, delete_calls,
                         credentials>>
          /\ UNCHANGED <<pf_server, pf, qs, authorization, http, call>>
       \/ /\ t.pc = "get"
          /\ \E refresh_ok \in BOOLEAN, http_ok \in BOOLEAN,
                loaded \in BOOLEAN :
               LET refresh == /\ picker
                              /\ ~CredValid(credentials)
                              /\ credentials.expired
                              /\ credentials.refresh_token
                   got     == (refresh => refresh_ok) /\ http_ok
                   reports == IF got
                              THEN Post(queue, h, "progress", 90)
                              ELSE queue
               IN  /\ credentials' =
                         IF refresh /\ refresh_ok
                         THEN [credentials EXCEPT !.token = @ + 1,
                                                  !.expired = FALSE]
                         ELSE credentials
                   /\ tasks' = [tasks EXCEPT ![h].pc = "return",
                                             ![h].pixmap = got /\ loaded]
                   /\ queue' = IF got /\ loaded
                               THEN Post(reports, h, "progress", 100)
                               ELSE reports
                   /\ last' = Did("load_image",
                                  IF refresh
                                  THEN <<Fx("credentials", "refresh", 0)>>
                                  ELSE <<>>)
          /\ UNCHANGED <<picker, active_worker, current_session_id,
                         poll_timer, timers, media_items, dialog_open,
                         next_session, outcome, sessions, delete_calls>>
          /\ UNCHANGED <<pf_server, pf, qs, authorization, http, call>>
       \/ ImageReturn(h)

WorkerStep ==
    \E h \in DOMAIN tasks : CreateWork(h) \/ FetchWork(h) \/ LoadImageWork(h)

(***************************************************************************)
(* The poll timer.                                                         *)
(***************************************************************************)

\* A QTimer that cannot fire: its poll closure is never run again, so the
\* closure's session id stays and its counter is released.
Stopped(t) ==
    [running |-> FALSE, session_id |-> t.session_id, poll_count |-> 0,
     all_active |-> TRUE]

\* StopTimer that leaves the timer running.
StopTimer_Noop(ts, cur) == ts

\* QTimer.stop on self.poll_timer.
StopTimer(ts, cur) ==
    IF cur # 0 THEN [ts EXCEPT ![cur] = Stopped(@)] ELSE ts

\* StartPolling whose closure is bound to another session id.
StartPolling_OtherSession(ts, cur, sid) ==
    Append(SelectSeq(StopTimer(ts, cur), LAMBDA t : t.running),
           [running |-> TRUE, session_id |-> sid + 1, poll_count |-> 0,
            all_active |-> TRUE])

\* _start_polling_session: stop the existing timer, bind self.poll_timer to a
\* new QTimer with a fresh poll closure (its session id, poll_count = 0) and
\* start it.  A stopped timer that is no longer referenced is dropped;
\* all_active notes that every descriptor seen so far was active and unset.
StartPolling(ts, cur, sid) ==
    Append(SelectSeq(StopTimer(ts, cur), LAMBDA t : t.running),
           [running |-> TRUE, session_id |-> sid, poll_count |-> 0,
            all_active |-> TRUE])

\* IsComplete as it would be with the expiry test made first.
IsComplete_ExpiryFirst(resp) ==
    /\ resp.status # SESSION_STATUS_EXPIRED
    /\ (resp.mediaItemsSet \/ resp.status = SESSION_STATUS_COMPLETE)

\* IsComplete that looks at mediaItemsSet only.
IsComplete_FlagOnly(resp) == resp.mediaItemsSet

\* The completion test of the poll closure.
IsComplete(resp) ==
    resp.mediaItemsSet \/ resp.status = SESSION_STATUS_COMPLETE

\* IsExpired that never holds.
IsExpired_Never(resp) == FALSE

\* The expiry test of the poll closure, made after the completion test.
IsExpired(resp) == resp.status = SESSION_STATUS_EXPIRED

\* PollTimedOut that fires when the count reaches the limit.
PollTimedOut_AtLimit(count) == count >= MAX_POLLS

\* PollTimedOut that never fires.
PollTimedOut_Never(count) == FALSE

\* The timeout test of the poll closure, on the incremented poll count.
PollTimedOut(count) == count > MAX_POLLS

(***************************************************************************)
(* The callbacks of the create task (closures of on_refresh_data).         *)
(***************************************************************************)

\* `progress`: updates and shows the progress dialog.
progress(m) ==
    /\ dialog_open' = TRUE
    /\ last' = Did("progress", <<Fx("dialog", "setValue", m.percent)>>)
    /\ UNCHANGED <<active_worker, current_session_id, poll_timer, timers,
                   media_items, sessions, delete_calls, outcome>>

\* `done`: validates the session data, records the session id, opens the
\* picker and starts polling.
done(h) ==
    LET session_id == tasks[h].json.id
        picker_uri == tasks[h].json.pickerUri
    IN  IF ~Truthy(session_id) \/ ~Truthy(picker_uri)
        THEN /\ dialog_open' = FALSE
             /\ active_worker' = 0
             /\ outcome' = "create_invalid"
             /\ last' = Did("done", <<Fx("msgbox", "missing_id_or_uri", 0)>>)
             /\ UNCHANGED <<current_session_id, poll_timer, timers,
                            media_items, sessions, delete_calls>>
        ELSE /\ current_session_id' = session_id.val
             /\ dialog_open' = TRUE
             /\ IF picker
                THEN /\ timers' = StartPolling(timers, poll_timer,
                                               session_id.val)
                     /\ poll_timer' = Len(timers')
                ELSE UNCHANGED <<timers, poll_timer>>
             /\ last' = Did("done", <<Fx("browser", "open", picker_uri.val)>>)
             /\ UNCHANGED <<active_worker, media_items, sessions,
                            delete_calls, outcome>>

\* `cancelled`: deletes the recorded session, if any, and resets.
cancelled(h) ==
    /\ dialog_open' = FALSE
    /\ IF current_session_id # 0 /\ picker
       THEN /\ delete_calls' = Append(delete_calls, current_session_id)
            /\ \E ok \in BOOLEAN :
                 sessions' = IF ok THEN sessions \ {current_session_id}
                             ELSE sessions
            /\ current_session_id' = 0
            /\ last' = Did("cancelled",
                           <<Fx("remote", "delete_session",
                                current_session_id)>>)
       ELSE /\ UNCHANGED <<delete_calls, sessions, current_session_id>>
            /\ last' = Did("cancelled", <<>>)
    /\ active_worker' = 0
    /\ outcome' = "cancelled"
    /\ UNCHANGED <<poll_timer, timers, media_items>>

\* error that leaves the handle recorded.
error_KeepsWorker(h) ==
    /\ dialog_open' = FALSE
    /\ outcome' = "create_failed"
    /\ last' = Did("error", <<Fx("msgbox", "error", 0)>>)
    /\ UNCHANGED <<active_worker, current_session_id, poll_timer, timers,
                   media_items, sessions, delete_calls>>

\* `error`: reports the failure and resets.
error(h) ==
    /\ dialog_open' = FALSE
    /\ active_worker' = 0
    /\ outcome' = "create_failed"
    /\ last' = Did("error", <<Fx("msgbox", "error", 0)>>)
    /\ UNCHANGED <<current_session_id, poll_timer, timers, media_items,
                   sessions, delete_calls>>

(***************************************************************************)
(* The callbacks of the fetch task (closures of the poll closure).         *)
(***************************************************************************)

\* items_done that leaves the session id recorded.
items_done_KeepSession(h) ==
    /\ dialog_open' = FALSE
    /\ media_items' = tasks[h].st.all_items
    /\ active_worker' = 0
    /\ outcome' = "done"
    /\ last' = Did("items_done",
                   <<Fx("msgbox", "loaded", Len(tasks[h].st.all_items))>>)
    /\ UNCHANGED <<current_session_id, poll_timer, timers, sessions,
                   delete_calls>>

\* `items_done`: installs the fetched items and resets.
items_done(h) ==
    /\ dialog_open' = FALSE
    /\ media_items' = tasks[h].st.all_items
    /\ current_session_id' = 0
    /\ active_worker' = 0
    /\ outcome' = "done"
    /\ last' = Did("items_done",
                   <<Fx("msgbox", "loaded", Len(tasks[h].st.all_items))>>)
    /\ UNCHANGED <<poll_timer, timers, sessions, delete_calls>>

\* items_error that also empties the installed items.
items_error_ClearsItems(h) ==
    /\ dialog_open' = FALSE
    /\ media_items' = <<>>
    /\ current_session_id' = 0
    /\ active_worker' = 0
    /\ outcome' = "fetch_failed"
    /\ last' = Did("items_error", <<Fx("msgbox", "error", 0)>>)
    /\ UNCHANGED <<poll_timer, timers, sessions, delete_calls>>

\* `items_error`: reports the failure and resets.
items_error(h) ==
    /\ dialog_open' = FALSE
    /\ current_session_id' = 0
    /\ active_worker' = 0
    /\ outcome' = "fetch_failed"
    /\ last' = Did("items_error", <<Fx("msgbox", "error", 0)>>)
    /\ UNCHANGED <<poll_timer, timers, media_items, sessions, delete_calls>>

(***************************************************************************)
(* The callbacks of the image task (closures of _load_and_display_image).  *)
(***************************************************************************)

\* `image_loaded`: shows the pixmap, or "Failed to load image" for None.
image_loaded(h) ==
    /\ last' = Did("image_loaded",
                   <<Fx("image_label",
                        IF tasks[h].pixmap THEN "pixmap" ELSE "failed", 0)>>)
    /\ UNCHANGED <<active_worker, current_session_id, poll_timer, timers,
                   media_items, dialog_open, sessions, delete_calls, outcome>>

\* `image_error`: shows the error text.
image_error(h) ==
    /\ last' = Did("image_error", <<Fx("image_label", "error", 0)>>)
    /\ UNCHANGED <<active_worker, current_session_id, poll_timer, timers,
                   media_items, dialog_open, sessions, delete_calls, outcome>>

\* A message whose slot was left out of the request: nothing runs.
no_callback ==
    /\ last' = Did("no_callback", <<>>)
    /\ UNCHANGED <<active_worker, current_session_id, poll_timer, timers,
                   media_items, dialog_open, sessions, delete_calls, outcome>>

\* The executor's record of a delivery: the callback that ran is logged on
\* the handle, and the handle's data is released with its terminal message.
Delivered(ts, h, type) ==
    LET logged == IF SlotOf(ts[h].req, type) = "none"
                  THEN ts[h].log
                  ELSE Append(ts[h].log, type)
    IN  IF type \in Terminal
        THEN [ts EXCEPT ![h].log = logged, ![h].alive = FALSE,
                        ![h].cancelled = FALSE, ![h].json = NoJson,
                        ![h].server = NoServer,
                        ![h].st = PaginateInit, ![h].pixmap = FALSE]
        ELSE [ts EXCEPT ![h].log = logged]

\* The main thread takes the oldest message of the queue and runs the
\* callback wired to its slot.
Deliver ==
    /\ queue # <<>>
    /\ LET m    == Head(queue)
           slot == SlotOf(tasks[m.h].req, m.type)
       IN  /\ queue' = Tail(queue)
           /\ tasks' = Delivered(tasks, m.h, m.type)
           /\ CASE slot = "progress"    -> progress(m)
                [] slot = "done"        -> done(m.h)
                [] slot = "cancelled"   -> cancelled(m.h)
                [] slot = "error"       -> error(m.h)
                [] slot = "items_done"  -> items_done(m.h)
                [] slot = "items_error" -> items_error(m.h)
                [] slot = "image_loaded" -> image_loaded(m.h)
                [] slot = "image_error"  -> image_error(m.h)
                [] OTHER                -> no_callback
    /\ UNCHANGED <<picker, next_session>>
    /\ UNCHANGED pfvars

(***************************************************************************)
(* `poll`, the closure connected to the timeout signal of timer t.         *)
(***************************************************************************)
PollDid(t, resp, fx) ==
    [op |-> "poll", fx |-> fx, resp |-> resp, timer |-> t,
     count |-> IF resp.raised \/ ~picker \/ current_session_id = 0
               THEN timers[t].poll_count
               ELSE timers[t].poll_count + 1,
     all_active |-> /\ timers[t].all_active
                    /\ ~resp.raised
                    /\ ~resp.mediaItemsSet
                    /\ resp.status = SESSION_STATUS_ACTIVE]

\* PollExcept that logs the error and lets the timer run on.
PollExcept_Retry(t, resp, get) ==
    /\ timers' = timers
    /\ last' = PollDid(t, resp, <<get>>)
    /\ UNCHANGED <<dialog_open, current_session_id, active_worker, outcome,
                   tasks, sessions, delete_calls>>

\* PollExcept that also deletes the session of the closure.
PollExcept_Cleanup(t, resp, get) ==
    /\ timers' = StopTimer(timers, poll_timer)
    /\ dialog_open' = FALSE
    /\ delete_calls' = Append(delete_calls, timers[t].session_id)
    /\ sessions' = sessions \ {timers[t].session_id}
    /\ current_session_id' = 0
    /\ active_worker' = 0
    /\ outcome' = "poll_failed"
    /\ last' = PollDid(t, resp, <<get, Fx("msgbox", "error", 0)>>)
    /\ UNCHANGED tasks

\* The except clause of the poll closure: get_session raised.
PollExcept(t, resp, get) ==
    /\ timers' = StopTimer(timers, poll_timer)
    /\ dialog_open' = FALSE
    /\ current_session_id' = 0
    /\ active_worker' = 0
    /\ outcome' = "poll_failed"
    /\ last' = PollDid(t, resp, <<get, Fx("msgbox", "error", 0)>>)
    /\ UNCHANGED <<tasks, sessions, delete_calls>>

poll(t) ==
    /\ timers[t].running
    /\ IF ~picker \/ current_session_id = 0
       THEN /\ timers' = StopTimer(timers, poll_timer)
            /\ last' = PollDid(t, NoResponse, <<>>)
            /\ UNCHANGED <<active_worker, current_session_id, tasks,
                           dialog_open, sessions, delete_calls, outcome>>
       ELSE \E resp \in SessionResponses :
         LET session_id == timers[t].session_id
             count      == timers[t].poll_count + 1
             get        == Fx("remote", "get_session", session_id)
             counted    == [timers EXCEPT
                              ![t].poll_count = count,
                              ![t].all_active =
                                  /\ @
                                  /\ ~resp.mediaItemsSet
                                  /\ resp.status = SESSION_STATUS_ACTIVE]
         IN
         IF resp.raised
         THEN PollExcept(t, resp, get)
         ELSE IF IsComplete(resp)
         THEN /\ timers' = StopTimer(counted, poll_timer)
              /\ tasks' = Append(tasks, NewWorker(FetchRequest, session_id))
              /\ active_worker' = Len(tasks) + 1
              /\ last' = PollDid(t, resp,
                                 <<get, Fx("submit", "fetch_items",
                                           Len(tasks) + 1)>>)
              /\ UNCHANGED <<current_session_id, dialog_open, sessions,
                             delete_calls, outcome>>
         ELSE IF IsExpired(resp)
         THEN /\ timers' = StopTimer(counted, poll_timer)
              /\ dialog_open' = FALSE
              /\ current_session_id' = 0
              /\ active_worker' = 0
              /\ outcome' = "expired"
              /\ last' = PollDid(t, resp, <<get, Fx("msgbox", "expired", 0)>>)
              /\ UNCHANGED <<tasks, sessions, delete_calls>>
         ELSE IF resp.status = SESSION_STATUS_ACTIVE \/ ~resp.mediaItemsSet
         THEN IF PollTimedOut(count)
              THEN /\ timers' = StopTimer(counted, poll_timer)
                   /\ dialog_open' = FALSE
                   /\ IF picker
                      THEN /\ delete_calls' = Append(delete_calls, session_id)
                           /\ \E ok \in BOOLEAN :
                                sessions' = IF ok
                                            THEN sessions \ {session_id}
                                            ELSE sessions
                      ELSE UNCHANGED <<delete_calls, sessions>>
                   /\ current_session_id' = 0
                   /\ active_worker' = 0
                   /\ outcome' = "timeout"
                   /\ last' = PollDid(t, resp,
                                      <<get, Fx("msgbox", "timeout", 0),
                                        Fx("remote", "delete_session",
                                           session_id)>>)
                   /\ UNCHANGED tasks
              ELSE /\ timers' = counted
                   /\ last' = PollDid(t, resp, <<get>>)
                   /\ UNCHANGED <<active_worker, current_session_id, tasks,
                                  dialog_open, sessions, delete_calls,
                                  outcome>>
         ELSE /\ timers' = counted
              /\ last' = PollDid(t, resp, <<get>>)
              /\ UNCHANGED <<active_worker, current_session_id, tasks,
                             dialog_open, sessions, delete_calls, outcome>>
    /\ UNCHANGED <<picker, poll_timer, media_items, queue, next_session>>
    /\ UNCHANGED pfvars

Tick == \E t \in DOMAIN timers : poll(t)

Next ==
    \/ on_authenticate
    \/ on_refresh_data
    \/ cancel_work
    \/ WorkerStep
    \/ Deliver
    \/ Tick

Spec == Init /\ [][Next]_vars

\* The view after an earlier flow has ended in Done with three items
\* installed: authenticated, nothing active, the pool holding no handle.
InitAfterDone ==
    /\ picker = TRUE
    /\ active_worker = 0
    /\ current_session_id = 0
    /\ poll_timer = 0
    /\ timers = <<>>
    /\ media_items = <<<<1, 1>>, <<1, 2>>, <<1, 3>>>>
    /\ dialog_open = FALSE
    /\ tasks = <<>>
    /\ queue = <<>>
    /\ sessions = {}
    /\ next_session = 1
    /\ delete_calls = <<>>
    /\ outcome = "done"
    /\ last = Did("init", <<>>)
    /\ pf_server = NoServer
    /\ pf = PaginateInit
    /\ qs = NoSettings
    /\ credentials = NewCredentials
    /\ authorization = 1
    /\ http = <<>>
    /\ call = NoCall

\* The steps from there: the client is set, so on_authenticate has nothing
\* to set.
NextAuthenticated ==
    \/ on_refresh_data
    \/ cancel_work
    \/ WorkerStep
    \/ Deliver
    \/ Tick

SpecAfterDone == InitAfterDone /\ [][NextAuthenticated]_vars

\* The view when a first request was cancelled before a session existed and
\* the `done` of a second one has recorded session 1, opened the picker and
\* started the poll timer: both create tasks have ended, the handle of the
\* second is still recorded.
AwaitingCompletion ==
    /\ picker = TRUE
    /\ active_worker = 2
    /\ current_session_id = 1
    /\ poll_timer = 1
    /\ timers = StartPolling(<<>>, 0, 1)
    /\ media_items = <<>>
    /\ dialog_open = TRUE
    /\ tasks = <<[NewWorker(CreateRequest, 0) EXCEPT
                    !.pc = "cancelled", !.alive = FALSE,
                    !.log = <<"progress", "cancel">>],
                 [NewWorker(CreateRequest, 0) EXCEPT
                    !.pc = "returned", !.alive = FALSE,
                    !.log = <<"progress", "progress", "done">>]>>
    /\ queue = <<>>
    /\ sessions = {1}
    /\ next_session = 2
    /\ delete_calls = <<>>
    /\ outcome = "none"
    /\ last = Did("done", <<Fx("browser", "open", 1)>>)

InitAwaiting ==
    /\ AwaitingCompletion
    /\ pf_server = NoServer
    /\ pf = PaginateInit
    /\ qs = NoSettings
    /\ credentials = NewCredentials
    /\ authorization = 1
    /\ http = <<>>
    /\ call = NoCall

\* The flow from there, with timer ticks that keep firing, work functions
\* that run on and a main thread that keeps taking the messages handed to it.
SpecAwaitingFair ==
    /\ InitAwaiting
    /\ [][NextAuthenticated]_vars
    /\ WF_vars(Tick)
    /\ WF_vars(WorkerStep)
    /\ WF_vars(Deliver)

\* The handles of a first request that has ended in Done.
FirstFlow ==
    <<[NewWorker(CreateRequest, 0) EXCEPT
         !.pc = "returned", !.alive = FALSE,
         !.log = <<"progress", "progress", "done">>],
      [NewWorker(FetchRequest, 1) EXCEPT
         !.pc = "returned", !.alive = FALSE, !.log = <<"done">>]>>

\* The handle of an image load that has ended.
ImageShown ==
    [NewWorker(ImageRequest, 0) EXCEPT
       !.pc = "returned", !.alive = FALSE, !.log = <<"done">>]

\* The view when a first request has ended in Done with three items
\* installed, images have been shown, and on_refresh_data has just submitted
\* the create task of a second request.
SecondRequest ==
    /\ picker = TRUE
    /\ active_worker = 5
    /\ current_session_id = 0
    /\ poll_timer = 1
    /\ timers = <<Stopped(StartPolling(<<>>, 0, 1)[1])>>
    /\ media_items = <<<<1, 1>>, <<1, 2>>, <<1, 3>>>>
    /\ dialog_open = TRUE
    /\ tasks = FirstFlow \o
                 <<ImageShown, ImageShown, NewWorker(CreateRequest, 0)>>
    /\ queue = <<>>
    /\ sessions = {}
    /\ next_session = 2
    /\ delete_calls = <<1>>
    /\ outcome = "none"
    /\ last = Did("on_refresh_data", <<Fx("submit", "work", 5)>>)

\* The view when such a second request, no image shown yet, has got its
\* session completed: session 2 is recorded, its timer is stopped, and
\* fetch_items, its first progress report delivered, is about to read the
\* pages of a server that has one page of three items.
SecondFetch ==
    /\ picker = TRUE
    /\ active_worker = 4
    /\ current_session_id = 2
    /\ poll_timer = 1
    /\ timers = <<Stopped(StartPolling(<<>>, 0, 2)[1])>>
    /\ media_items = <<<<1, 1>>, <<1, 2>>, <<1, 3>>>>
    /\ dialog_open = TRUE
    /\ tasks = FirstFlow \o
                 <<[NewWorker(CreateRequest, 0) EXCEPT
                      !.pc = "returned", !.alive = FALSE,
                      !.log = <<"progress", "progress", "done">>],
                   [NewWorker(FetchRequest, 2) EXCEPT
                      !.pc = "paginate",
                      !.server =
                          [head |-> [i \in 1..TableLen |->
                                       IF i = 1
                                       THEN [n |-> 3, next |-> "none"]
                                       ELSE LastRow],
                           fail |-> 0]]>>
    /\ queue = <<>>
    /\ sessions = {2}
    /\ next_session = 3
    /\ delete_calls = <<1>>
    /\ outcome = "none"
    /\ last = Did("no_callback", <<>>)

\* From either, with the client's credentials expired and a refresh token at
\* hand, the user selects media items while the session runs.
InitImage ==
    /\ SecondRequest \/ SecondFetch
    /\ pf_server = NoServer
    /\ pf = PaginateInit
    /\ qs = NoSettings
    /\ credentials = [token |-> 1, expired |-> TRUE, refresh_token |-> TRUE]
    /\ authorization = 1
    /\ http = <<>>
    /\ call = NoCall

NextImage ==
    \/ on_refresh_data
    \/ cancel_work
    \/ _load_and_display_image
    \/ WorkerStep
    \/ Deliver
    \/ Tick

SpecImage == InitImage /\ [][NextImage]_vars

PfInit ==
    /\ pf_server \in Servers
    /\ pf = PaginateInit
    /\ qs = NoSettings
    /\ credentials = NewCredentials
    /\ authorization = 1
    /\ http = <<>>
    /\ call = NoCall
    /\ picker = FALSE
    /\ active_worker = 0
    /\ current_session_id = 0
    /\ poll_timer = 0
    /\ timers = <<>>
    /\ media_items = <<>>
    /\ dialog_open = FALSE
    /\ tasks = <<>>
    /\ queue = <<>>
    /\ sessions = {}
    /\ next_session = 1
    /\ delete_calls = <<>>
    /\ outcome = "none"
    /\ last = Did("init", <<>>)

\* get_all_selected_media_items(session) running against the chosen server,
\* one loop iteration per step.
RunPaginate ==
    /\ pf.pc = "loop"
    /\ pf' = PaginateStep(pf_server, pf)
    /\ UNCHANGED <<pf_server, qs>>
    /\ UNCHANGED authvars
    /\ UNCHANGED flowvars

NextPaginate == RunPaginate

SpecPaginate == PfInit /\ [][NextPaginate]_vars

SpecPaginateFair == SpecPaginate /\ WF_vars(RunPaginate)

(***************************************************************************)
(* The client's credential check.  Credentials carry an access token, the  *)
(* expired flag and whether there is a refresh token; the access token of  *)
(* a picker client is set from its construction on.                        *)
(***************************************************************************)

\* _update_session_auth that sets the header whatever the credentials are.
_update_session_auth_NoFailFast(c, hdr, refresh_ok) ==
    IF ~CredValid(c) /\ c.expired /\ c.refresh_token
    THEN IF refresh_ok
         THEN [raised |-> "none", refresh |-> "ok",
               cred |-> [c EXCEPT !.token = @ + 1, !.expired = FALSE],
               authorization |-> c.token + 1]
         ELSE [raised |-> "RefreshError", refresh |-> "failed",
               cred |-> c, authorization |-> hdr]
    ELSE [raised |-> "none", refresh |-> "none", cred |-> c,
          authorization |-> c.token]

\* GooglePhotosPicker._update_session_auth on credentials c with header hdr:
\* credentials that are not valid are refreshed when they are expired and
\* have a refresh token (the refresh gives a new token, or raises), and make
\* the call raise ValueError otherwise; then the header gets the token.
_update_session_auth(c, hdr, refresh_ok) ==
    IF ~CredValid(c)
    THEN IF c.expired /\ c.refresh_token
         THEN IF refresh_ok
              THEN [raised |-> "none", refresh |-> "ok",
                    cred |-> [c EXCEPT !.token = @ + 1, !.expired = FALSE],
                    authorization |-> c.token + 1]
              ELSE [raised |-> "RefreshError", refresh |-> "failed",
                    cred |-> c, authorization |-> hdr]
         ELSE [raised |-> "ValueError", refresh |-> "none", cred |-> c,
               authorization |-> hdr]
    ELSE [raised |-> "none", refresh |-> "none", cred |-> c,
          authorization |-> c.token]

\* The operations of the client and the HTTP method each of them uses.
PickerOps ==
    {"create_session", "get_session", "delete_session",
     "get_selected_media_items"}

HttpMethod(op) ==
    CASE op = "create_session" -> "POST"
      [] op = "delete_session" -> "DELETE"
      [] OTHER                 -> "GET"

\* One of create_session, get_session, delete_session and
\* get_selected_media_items: _update_session_auth first, then the request
\* through the session (with its Authorization header), then
\* raise_for_status.
PickerCall(op) ==
    /\ Len(http) < MaxCalls
    /\ \E refresh_ok \in BOOLEAN, http_ok \in BOOLEAN :
         LET auth == _update_session_auth(credentials, authorization,
                                          refresh_ok)
         IN  /\ credentials' = auth.cred
             /\ authorization' = auth.authorization
             /\ IF auth.raised # "none"
                THEN /\ http' = http
                     /\ call' = [op |-> op, error |-> auth.raised,
                                 refresh |-> auth.refresh]
                ELSE /\ http' = Append(http,
                                       [op |-> op, method |-> HttpMethod(op),
                                        authorization |-> auth.authorization])
                     /\ call' = [op |-> op,
                                 error |-> IF http_ok THEN "none"
                                           ELSE "HTTPError",
                                 refresh |-> auth.refresh]
    /\ UNCHANGED <<pf_server, pf, qs>>
    /\ UNCHANGED flowvars

\* Time passes: the access token expires.
Expire ==
    /\ ~credentials.expired
    /\ credentials.token <= MaxTokens
    /\ credentials' = [credentials EXCEPT !.expired = TRUE]
    /\ call' = NoCall
    /\ UNCHANGED <<authorization, http, pf_server, pf, qs>>
    /\ UNCHANGED flowvars

AuthInit ==
    /\ credentials \in [token : {1}, expired : {FALSE},
                        refresh_token : BOOLEAN]
    /\ authorization = 1
    /\ http = <<>>
    /\ call = NoCall
    /\ pf_server = NoServer
    /\ pf = PaginateInit
    /\ qs = NoSettings
    /\ picker = TRUE
    /\ active_worker = 0
    /\ current_session_id = 0
    /\ poll_timer = 0
    /\ timers = <<>>
    /\ media_items = <<>>
    /\ dialog_open = FALSE
    /\ tasks = <<>>
    /\ queue = <<>>
    /\ sessions = {}
    /\ next_session = 1
    /\ delete_calls = <<>>
    /\ outcome = "none"
    /\ last = Did("init", <<>>)

NextAuth ==
    \/ Expire
    \/ \E op \in PickerOps : PickerCall(op)

SpecAuth == AuthInit /\ [][NextAuth]_vars

(***************************************************************************)
(* The query parameters of get_selected_media_items.                       *)
(***************************************************************************)

\* Python's min of two numbers.
PyMin(a, b) == IF b < a THEN b ELSE a

\* RequestParams that passes page_size on as it is.
RequestParams_NoCap(session_id, page_size, page_token) ==
    LET params == ("sessionId" :> session_id) @@ ("pageSize" :> page_size)
    IN  IF Truthy(page_token)
        THEN params @@ ("pageToken" :> page_token.val)
        ELSE params

\* The params dict: sessionId, pageSize = min(page_size, 100), and the
\* pageToken key under `if page_token:`.
RequestParams(session_id, page_size, page_token) ==
    LET params == ("sessionId" :> session_id)
                    @@ ("pageSize" :> PyMin(page_size, page_size_cap))
    IN  IF Truthy(page_token)
        THEN params @@ ("pageToken" :> page_token.val)
        ELSE params

\* The page sizes and page tokens a caller passes: page_size is any int,
\* page_token is None, "" or a token.
PageSizes == (0 - 1)..MaxPageSize

PageTokens == {PyNone, PyEmpty} \cup {PyStr(k) : k \in 1..MaxTokens}

\* A caller about to call get_selected_media_items(1, page_size, page_token)
\* on a client with valid credentials.
ParamsInit ==
    /\ call \in [op : {"get_selected_media_items"}, error : {"none"},
                  refresh : {"none"}, page_size : PageSizes,
                  page_token : PageTokens]
    /\ http = <<>>
    /\ credentials = NewCredentials
    /\ authorization = 1
    /\ pf_server = NoServer
    /\ pf = PaginateInit
    /\ qs = NoSettings
    /\ picker = TRUE
    /\ active_worker = 0
    /\ current_session_id = 0
    /\ poll_timer = 0
    /\ timers = <<>>
    /\ media_items = <<>>
    /\ dialog_open = FALSE
    /\ tasks = <<>>
    /\ queue = <<>>
    /\ sessions = {}
    /\ next_session = 1
    /\ delete_calls = <<>>
    /\ outcome = "none"
    /\ last = Did("init", <<>>)

\* The call: the credential check, then the GET with the params.
FetchPage ==
    /\ http = <<>>
    /\ LET auth == _update_session_auth(credentials, authorization, TRUE)
       IN  /\ auth.raised = "none"
           /\ credentials' = auth.cred
           /\ authorization' = auth.authorization
           /\ http' = <<[op |-> call.op, method |-> HttpMethod(call.op),
                         authorization |-> auth.authorization,
                         params |-> RequestParams(1, call.page_size,
                                                  call.page_token)]>>
    /\ UNCHANGED <<call, pf_server, pf, qs>>
    /\ UNCHANGED flowvars

SpecParams == ParamsInit /\ [][FetchPage]_vars

(***************************************************************************)
(* GooglePhotosPicker.wait_for_session_completion, the blocking wait of a  *)
(* caller that uses the client without the view.                           *)
(***************************************************************************)

\* wait_for_session_completion whose third test is on the status alone.
wait_for_session_completion_ActiveOnly(resp, over) ==
    LET media_items_set == resp.mediaItemsSet
        status == IF resp.status = "" THEN SESSION_STATUS_UNSPECIFIED
                  ELSE resp.status
    IN  IF resp.raised THEN "raised"
        ELSE IF media_items_set \/ status = SESSION_STATUS_COMPLETE
        THEN "return"
        ELSE IF status = SESSION_STATUS_EXPIRED
        THEN "RuntimeError_expired"
        ELSE IF status = SESSION_STATUS_ACTIVE
        THEN IF over THEN "TimeoutError" ELSE "loop"
        ELSE "RuntimeError_unknown"

\* wait_for_session_completion whose completion test is on the status alone.
wait_for_session_completion_StatusOnly(resp, over) ==
    LET media_items_set == resp.mediaItemsSet
        status == IF resp.status = "" THEN SESSION_STATUS_UNSPECIFIED
                  ELSE resp.status
    IN  IF resp.raised THEN "raised"
        ELSE IF status = SESSION_STATUS_COMPLETE
        THEN "return"
        ELSE IF status = SESSION_STATUS_EXPIRED
        THEN "RuntimeError_expired"
        ELSE IF status = SESSION_STATUS_ACTIVE \/ ~media_items_set
        THEN IF over THEN "TimeoutError" ELSE "loop"
        ELSE "RuntimeError_unknown"

\* One iteration of the while loop on the descriptor get_session gives (or
\* its exception); `over` tells whether the timeout has passed.  A missing
\* status reads as SESSION_STATUS_UNSPECIFIED.  The result is where the
\* iteration ends: back in the loop after the sleep, in the return, or in a
\* raise.
wait_for_session_completion(resp, over) ==
    LET media_items_set == resp.mediaItemsSet
        status == IF resp.status = "" THEN SESSION_STATUS_UNSPECIFIED
                  ELSE resp.status
    IN  IF resp.raised THEN "raised"
        ELSE IF media_items_set \/ status = SESSION_STATUS_COMPLETE
        THEN "return"
        ELSE IF status = SESSION_STATUS_EXPIRED
        THEN "RuntimeError_expired"
        ELSE IF status = SESSION_STATUS_ACTIVE \/ ~media_items_set
        THEN IF over THEN "TimeoutError" ELSE "loop"
        ELSE "RuntimeError_unknown"

\* A caller has entered wait_for_session_completion; the view is not
\* authenticated and has nothing running.
WaitInit ==
    /\ call = [op |-> "wait_for_session_completion", error |-> "none",
               refresh |-> "none", pc |-> "loop", resp |-> NoResponse]
    /\ http = <<>>
    /\ credentials = NewCredentials
    /\ authorization = 1
    /\ pf_server = NoServer
    /\ pf = PaginateInit
    /\ qs = NoSettings
    /\ picker = FALSE
    /\ active_worker = 0
    /\ current_session_id = 0
    /\ poll_timer = 0
    /\ timers = <<>>
    /\ media_items = <<>>
    /\ dialog_open = FALSE
    /\ tasks = <<>>
    /\ queue = <<>>
    /\ sessions = {}
    /\ next_session = 1
    /\ delete_calls = <<>>
    /\ outcome = "none"
    /\ last = Did("init", <<>>)

\* One pass through the loop body: get_session, then the tests.
WaitIteration ==
    /\ call.op = "wait_for_session_completion"
    /\ call.pc = "loop"
    /\ Len(http) < MaxCalls
    /\ \E resp \in SessionResponses, over \in BOOLEAN :
         /\ http' = Append(http, [op |-> "get_session",
                                  method |-> HttpMethod("get_session"),
                                  authorization |-> authorization])
         /\ call' = [call EXCEPT
                       !.pc = wait_for_session_completion(resp, over),
                       !.resp = resp]
    /\ UNCHANGED <<credentials, authorization, pf_server, pf, qs>>
    /\ UNCHANGED flowvars

\* The two pollers of a session: the view waiting for its session, and a
\* caller in the blocking wait.
InitStatus == InitAwaiting \/ WaitInit

NextStatus ==
    \/ on_refresh_data
    \/ cancel_work
    \/ WorkerStep
    \/ Deliver
    \/ Tick
    \/ WaitIteration

SpecStatus == InitStatus /\ [][NextStatus]_vars

(***************************************************************************)
(* The two pollers side by side: the view awaits session 1 while a caller  *)
(* is in wait_for_session_completion for the same session, and the server  *)
(* gives the n-th get_session of each the same answer.                     *)
(***************************************************************************)
InitSideBySide ==
    /\ AwaitingCompletion
    /\ call = [op |-> "wait_for_session_completion", error |-> "none",
               refresh |-> "none", pc |-> "loop", resp |-> NoResponse]
    /\ http = <<>>
    /\ credentials = NewCredentials
    /\ authorization = 1
    /\ pf_server = NoServer
    /\ pf = PaginateInit
    /\ qs = NoSettings

\* The number of get_session calls the poll closure has made.
TicksSoFar ==
    IF last.op # "poll" THEN 0
    ELSE IF last.resp.raised THEN last.count + 1
    ELSE last.count

\* A tick of the view's timer, taken while the blocking wait is in its loop
\* and has had the answers given so far; the server chooses the answer.
TickFirst ==
    /\ call.pc = "loop"
    /\ Len(http) = TicksSoFar
    /\ Tick

\* One pass through the loop body of the blocking wait, whose get_session
\* gets the answer the tick got.
WaitSecond ==
    /\ call.op = "wait_for_session_completion"
    /\ call.pc = "loop"
    /\ Len(http) < TicksSoFar
    /\ \E over \in BOOLEAN :
         /\ http' = Append(http, [op |-> "get_session",
                                  method |-> HttpMethod("get_session"),
                                  authorization |-> authorization])
         /\ call' = [call EXCEPT
                       !.pc = wait_for_session_completion(last.resp, over),
                       !.resp = last.resp]
    /\ UNCHANGED <<credentials, authorization, pf_server, pf, qs>>
    /\ UNCHANGED flowvars

NextSideBySide ==
    \/ TickFirst
    \/ WaitSecond

SpecSideBySide == InitSideBySide /\ [][NextSideBySide]_vars

(***************************************************************************)
(* core/file_manager.py and core/settings.py: the recent-files list kept   *)
(* in QSettings.  A path is named by a number from 1 to MaxPaths, its      *)
(* str() by the same number.                                               *)
(***************************************************************************)
PyMax(a, b) == IF b > a THEN b ELSE a

\* seq[:n] of Python: the first n elements, or all but the last -n.
PySliceTo(seq, n) ==
    IF n >= 0
    THEN SubSeq(seq, 1, PyMin(n, Len(seq)))
    ELSE SubSeq(seq, 1, PyMax(Len(seq) + n, 0))

\* get_max_recent_files without the lower bound of the clamp.
get_max_recent_files_NoFloor(value) ==
    IF value.type = "NoneType" THEN default_max_recent
    ELSE IF value.type # "int" THEN default_max_recent
    ELSE PyMin(max_max_recent, value.val)

\* Settings.get_max_recent_files on the stored value: 10 for a missing key
\* and for a value int() rejects, otherwise the number clamped to 1..100.
get_max_recent_files(value) ==
    IF value.type = "NoneType" THEN default_max_recent
    ELSE IF value.type # "int" THEN default_max_recent
    ELSE PyMax(min_max_recent, PyMin(max_max_recent, value.val))

\* What QSettings.value gives for the stored list, [] being the default of
\* a missing key: the backend may give an empty list back as None and a
\* list of one string as that string.
QValue(stored) ==
    IF stored.type = "NoneType" THEN {QList(<<>>)}
    ELSE IF Len(stored.items) = 0 THEN {QAbsent, QList(<<>>)}
    ELSE IF Len(stored.items) = 1
    THEN {[type |-> "str", val |-> stored.items[1], items |-> <<>>],
          stored}
    ELSE {stored}

\* Settings.get_str_list on the value QSettings gave.
get_str_list(value) ==
    IF value.type = "NoneType" THEN <<>>
    ELSE IF value.type = "list" THEN value.items
    ELSE IF value.type = "str"
    THEN IF value.val # 0 THEN <<value.val>> ELSE <<>>
    ELSE <<value.val>>

Paths == 1..MaxPaths

\* The values found under files/max_recent_files when the program starts,
\* and the values a caller passes to set_max_recent_files.
MaxChoices == ((0 - 1)..MaxPaths) \cup {max_max_recent, max_max_recent + 1}

\* The program starts with no recent files stored and with whatever an
\* earlier run or an edit of the settings file left as the maximum.
InitRecent ==
    /\ qs \in [recent_files : {QAbsent},
                max_recent_files : {QAbsent, QText}
                                     \cup {QInt(k) : k \in MaxChoices}]
    /\ pf_server = NoServer
    /\ pf = PaginateInit
    /\ credentials = NewCredentials
    /\ authorization = 1
    /\ http = <<>>
    /\ call = NoCall
    /\ picker = FALSE
    /\ active_worker = 0
    /\ current_session_id = 0
    /\ poll_timer = 0
    /\ timers = <<>>
    /\ media_items = <<>>
    /\ dialog_open = FALSE
    /\ tasks = <<>>
    /\ queue = <<>>
    /\ sessions = {}
    /\ next_session = 1
    /\ delete_calls = <<>>
    /\ outcome = "none"
    /\ last = Did("init", <<>>)

\* FileManager.add_recent_file(path): the path first, then the stored
\* entries other than it, cut to the current maximum and stored.
add_recent_file(path) ==
    \E value \in QValue(qs.recent_files) :
      LET path_str  == path
          recent    == <<path_str>> \o
                         SelectSeq(get_str_list(value),
                                   LAMBDA item : item # path_str)
          max_files == get_max_recent_files(qs.max_recent_files)
      IN  /\ qs' = [qs EXCEPT
                      !.recent_files = QList(PySliceTo(recent, max_files))]
          /\ last' = Did("add_recent_file",
                         <<Fx("settings", "set_recent_files", path)>>)

\* Settings.set_max_recent_files(max_files): stores the clamped number.
set_max_recent_files(max_files) ==
    LET clamped == PyMax(min_max_recent, PyMin(max_max_recent, max_files))
    IN  /\ qs' = [qs EXCEPT !.max_recent_files = QInt(clamped)]
        /\ last' = Did("set_max_recent_files",
                       <<Fx("settings", "setValue", clamped)>>)

AddRecent ==
    /\ \E path \in Paths : add_recent_file(path)
    /\ UNCHANGED <<picker, active_worker, current_session_id, poll_timer,
                   timers, media_items, dialog_open, tasks, queue, sessions,
                   next_session, delete_calls, outcome>>
    /\ UNCHANGED <<pf_server, pf, credentials, authorization, http, call>>

SetMaxRecent ==
    /\ \E max_files \in MaxChoices : set_max_recent_files(max_files)
    /\ UNCHANGED <<picker, active_worker, current_session_id, poll_timer,
                   timers, media_items, dialog_open, tasks, queue, sessions,
                   next_session, delete_calls, outcome>>
    /\ UNCHANGED <<pf_server, pf, credentials, authorization, http, call>>

NextRecent ==
    \/ AddRecent
    \/ SetMaxRecent

SpecRecent == InitRecent /\ [][NextRecent]_vars

(***************************************************************************)
(* Helpers of the properties.                                              *)
(***************************************************************************)

\* Number of items on pages 1..m of a server.
RECURSIVE ItemsUpTo(_, _)
ItemsUpTo(server, m) ==
    IF m = 0 THEN 0 ELSE PageRow(server, m).n + ItemsUpTo(server, m - 1)

\* items is the concatenation, in page order, of the items of pages 1..m:
\* every entry is an item of one of these pages, the entries are strictly
\* increasing in (page, position), and none is missing.
IsConcatOfPages(items, server, m) ==
    /\ Len(items) = ItemsUpTo(server, m)
    /\ \A k \in 1..Len(items) :
         /\ items[k][1] \in 1..m
         /\ items[k][2] \in 1..PageRow(server, items[k][1]).n
    /\ \A k \in 1..(Len(items) - 1) :
         \/ items[k][1] < items[k + 1][1]
         \/ /\ items[k][1] = items[k + 1][1]
            /\ items[k][2] < items[k + 1][2]

(***************************************************************************)
(* Properties of the task executor and of the session flow.                *)
(***************************************************************************)
TerminalsOf(h) == SelectSeq(tasks[h].log, LAMBDA e : e \in Terminal)

Pending(h) == \E i \in 1..Len(queue) : queue[i].h = h

RunningTimers == {t \in DOMAIN timers : timers[t].running}

\* Tasks submitted whose terminal callback has not been delivered yet.
InFlight == {h \in DOMAIN tasks : tasks[h].alive}

\* C1: per submitted request at most one terminal callback runs; the one
\* that ran matches how the work function ended (on_done after it returned,
\* on_error after it raised, on_cancel after it observed cancellation), so it
\* never runs before the work function has ended; and once the work function
\* has ended and the queue holds nothing more for the handle, exactly one
\* terminal callback has run.
C1_ExactlyOneTerminal ==
    \A h \in DOMAIN tasks :
      LET term == TerminalsOf(h) IN
      /\ Len(term) <= 1
      /\ Len(term) = 1 =>
           tasks[h].pc = CASE term[1] = "done"  -> "returned"
                           [] term[1] = "error" -> "raised"
                           [] OTHER             -> "cancelled"
      /\ (tasks[h].pc \in FinalPcs /\ ~Pending(h)) => Len(term) = 1

C1_Witness ==
    \E h1, h2 \in DOMAIN tasks :
      /\ TerminalsOf(h1) = <<"cancel">>
      /\ tasks[h1].log = <<"progress", "cancel">>
      /\ TerminalsOf(h2) = <<"done">>

\* C2: at most one poll timer runs, at most one task of the flow is in
\* flight, never both at once, and the session of the running timer or of the
\* fetch task in flight is the one recorded session id.
C2_SingleActiveSession ==
    /\ Cardinality(RunningTimers) <= 1
    /\ Cardinality(InFlight) <= 1
    /\ ~(RunningTimers # {} /\ InFlight # {})
    /\ \A t \in RunningTimers :
         current_session_id # 0 /\ timers[t].session_id = current_session_id
    /\ \A h \in InFlight :
         tasks[h].req.fn = "fetch_items" =>
           current_session_id # 0 /\ tasks[h].session_id = current_session_id

C2_Witness ==
    /\ Len(tasks) = 3
    /\ \E h \in InFlight : tasks[h].req.fn = "fetch_items" /\ h = 3
    /\ current_session_id = tasks[3].session_id

\* C3: a start-session request made while a handle is active or a session id
\* is recorded changes nothing of the flow (handle, session id, timers, poll
\* counts, tasks, queue, server sessions, results), submits nothing, calls no
\* remote operation, and only shows a message.
C3_RefreshRejected ==
    [][(last'.op = "on_refresh_data"
          /\ (active_worker # 0 \/ current_session_id # 0)) =>
         /\ UNCHANGED <<picker, active_worker, current_session_id, poll_timer,
                        timers, media_items, dialog_open, tasks, queue,
                        sessions, next_session, delete_calls, outcome>>
         /\ \A i \in 1..Len(last'.fx) : last'.fx[i].op = "msgbox"]_vars

C3_Witness ==
    /\ last.op = "on_refresh_data"
    /\ last.fx = <<Fx("msgbox", "already_active", 0)>>
    /\ RunningTimers # {}
    /\ current_session_id # 0

\* C4: cancel requested while the poll timer runs (the session awaits
\* completion, no task is in flight) stops the timer, attempts delete_session
\* for the recorded session, clears the session id and the active handle and
\* ends the flow as cancelled.
C4_CancelWhileAwaiting ==
    [][(last'.op = "cancel_work" /\ RunningTimers # {}) =>
         /\ RunningTimers' = {}
         /\ current_session_id' = 0
         /\ active_worker' = 0
         /\ delete_calls' = Append(delete_calls, current_session_id)
         /\ outcome' = "cancelled"]_vars

\* A poll tick of a timer all of whose descriptors, this one included, were
\* mediaItemsSet = false with status ACTIVE.
AllActiveTick == last'.op = "poll" /\ last' # last /\ last'.all_active

TimedOutNow ==
    /\ outcome' = "timeout"
    /\ RunningTimers' = {}
    /\ delete_calls' = Append(delete_calls, timers[last'.timer].session_id)
    /\ current_session_id' = 0
    /\ active_worker' = 0

C6_CompletionThenFetch ==
    [][/\ (last'.op = "poll" /\ last' # last /\ ~last'.resp.raised
             /\ picker /\ current_session_id # 0
             /\ (last'.resp.mediaItemsSet
                   \/ last'.resp.status = "SESSION_STATUS_COMPLETE")) =>
            /\ RunningTimers' = {}
            /\ Len(tasks') = Len(tasks) + 1
            /\ tasks'[Len(tasks')].req.fn = "fetch_items"
            /\ tasks'[Len(tasks')].session_id = timers[last'.timer].session_id
            /\ active_worker' = Len(tasks')
       /\ \A i \in 1..Len(last'.fx) :
            (last' # last /\ last'.fx[i].what = "get_session") =>
              \A h \in DOMAIN tasks :
                tasks[h].req.fn = "fetch_items" =>
                  tasks[h].session_id # last'.fx[i].arg
       /\ last'.op = "items_done" =>
            LET t == tasks[Head(queue).h] IN
            /\ t.req.fn = "fetch_items"
            /\ media_items' = t.st.all_items
            /\ IsConcatOfPages(media_items', t.server, Len(t.st.pages))
            /\ (t.server.head[1] = [n |-> 3, next |-> "none"]) =>
                 Len(media_items') = 3
            /\ t.session_id \notin sessions'
            /\ current_session_id' = 0
            /\ active_worker' = 0]_vars

C6_Witness ==
    /\ last.op = "items_done"
    /\ outcome = "done"
    /\ media_items = <<<<1, 1>>, <<1, 2>>, <<1, 3>>>>
    /\ current_session_id = 0
    /\ active_worker = 0
    /\ sessions = {}

\* C7: on a poll tick that got a descriptor, a fetch task is submitted and
\* the timer stopped if and only if mediaItemsSet is true or status is
\* SESSION_STATUS_COMPLETE.
C7_CompletionPredicate ==
    [][(last'.op = "poll" /\ last' # last /\ ~last'.resp.raised
          /\ picker /\ current_session_id # 0) =>
         LET complete == \/ last'.resp.mediaItemsSet
                         \/ last'.resp.status = "SESSION_STATUS_COMPLETE"
             fetching == /\ Len(tasks') = Len(tasks) + 1
                         /\ tasks'[Len(tasks')].req.fn = "fetch_items"
                         /\ RunningTimers' = {}
         IN  /\ complete => fetching
             /\ ~complete => tasks' = tasks]_vars

C7_Witness ==
    /\ last.op = "poll"
    /\ ~last.resp.mediaItemsSet
    /\ last.resp.status = "SESSION_STATUS_COMPLETE"
    /\ \E h \in InFlight : tasks[h].req.fn = "fetch_items" /\ tasks[h].pc = "start"

(***************************************************************************)
(* Properties of the pagination loop.                                      *)
(***************************************************************************)

\* A server whose every page has items and a nextPageToken and never fails.
AlwaysMore(server) ==
    /\ server.fail = 0
    /\ \A i \in 1..TableLen :
         server.head[i].n > 0 /\ server.head[i].next = "tok"

C8_Bounded ==
    /\ Len(pf.requests) <= 100
    /\ (pf.pc # "loop" /\ AlwaysMore(pf_server)) =>
         /\ pf.pc = "returned"
         /\ Len(pf.requests) = 100
         /\ pf.log = <<"limit">>
         /\ IsConcatOfPages(pf.all_items, pf_server, 100)

\* C8: get_all_selected_media_items terminates against every server; it
\* never sends more than 100 requests, and against a server whose pages all
\* have items and a nextPageToken it fetches exactly 100 pages, logs the
\* limit warning and returns the items of these 100 pages.
C8_PaginationTerminates == []C8_Bounded /\ <>(pf.pc # "loop")

C8_Witness ==
    /\ AlwaysMore(pf_server)
    /\ pf.pc = "returned"
    /\ Len(pf.requests) = 100
    /\ pf.log = <<"limit">>

\* Pages answered so far: the request that raised got no page.
Answered == IF pf.pc = "raised" THEN Len(pf.pages) - 1 ELSE Len(pf.pages)

\* C9: the first request carries no page token, every later request carries
\* the (non-empty) nextPageToken of the page received just before it, no page
\* is requested twice, and the accumulated list is the concatenation in fetch
\* order of the items of the pages answered.
C9_OrderedConcatenation ==
    /\ Len(pf.pages) = Len(pf.requests)
    /\ Len(pf.requests) >= 1 => pf.requests[1] = PyNone
    /\ \A k \in 2..Len(pf.requests) :
         /\ Truthy(pf.requests[k])
         /\ pf.requests[k] = PageNextToken(pf_server, pf.pages[k - 1])
    /\ \A k \in 1..Len(pf.pages) : pf.pages[k] = k
    /\ IsConcatOfPages(pf.all_items, pf_server, Answered)

C9_Witness ==
    /\ pf.pc = "returned"
    /\ Len(pf.pages) = 2
    /\ Len(pf.all_items) > PageRow(pf_server, 1).n
    /\ PageRow(pf_server, 1).n > 0
    /\ ~Truthy(PageNextToken(pf_server, 2))

\* C10: a page with zero items that carries a nextPageToken is the last page
\* requested: the function returns (it does not raise) what it had
\* accumulated before that page, and logs the anomaly.
C10_EmptyPageStops ==
    \A k \in 1..Answered :
      (PageRow(pf_server, k).n = 0 /\ Truthy(PageNextToken(pf_server, k))) =>
        /\ k = Len(pf.requests)
        /\ pf.pc = "returned"
        /\ pf.log = <<"anomaly">>
        /\ IsConcatOfPages(pf.all_items, pf_server, k - 1)

C10_Witness ==
    /\ pf.pc = "returned"
    /\ PageRow(pf_server, 1).n = 0
    /\ Truthy(PageNextToken(pf_server, 1))
    /\ pf.all_items = <<>>
    /\ Len(pf.requests) = 1

(***************************************************************************)
(* Properties of cleanup, cancellation and delivery.                       *)
(***************************************************************************)

\* The main thread runs the terminal callback of a fetch task.
FetchTerminalStep ==
    /\ queue # <<>>
    /\ queue' = Tail(queue)
    /\ Head(queue).type \in Terminal
    /\ tasks[Head(queue).h].req.fn = "fetch_items"

\* C11: a failure of delete_session never changes the outcome of the flow
\* that called it: the timeout tick ends the flow as timed out whether
\* delete_session succeeded or not, and a fetch task whose pagination
\* returned all pages ends the flow in Done with its items installed, also
\* when the delete_session that follows fails.
C11_DeleteFailureSwallowed ==
    [][/\ (last'.op = "poll" /\ last' # last /\ Len(last'.fx) = 3) =>
            outcome' = "timeout"
       /\ (FetchTerminalStep
             /\ tasks[Head(queue).h].st.pc = "returned") =>
            /\ last'.op = "items_done"
            /\ outcome' = "done"
            /\ media_items' = tasks[Head(queue).h].st.all_items]_vars

\* The main thread runs the terminal callback of handle h.
TerminalStepOf(h) ==
    /\ queue # <<>>
    /\ queue' = Tail(queue)
    /\ Head(queue).type \in Terminal
    /\ Head(queue).h = h

\* C12: a cancelled flag set before `work` calls check_cancelled stays set
\* until that call; the call, finding the flag set, ends the work function as
\* cancelled and hands on_cancel (and nothing else) to the main thread; the
\* terminal callback then run for the handle is on_cancel (`cancelled`),
\* never on_done or on_error; and cancel itself moves no work function.
C12_CancelObserved ==
    [][/\ \A h \in DOMAIN tasks :
            /\ (tasks[h].req.fn = "work" /\ tasks[h].cancelled
                  /\ tasks[h].pc \in {"start", "check_cancelled"}) =>
                 /\ tasks'[h].cancelled
                 /\ tasks'[h].pc \in {"start", "check_cancelled", "cancelled"}
            /\ (tasks[h].cancelled /\ tasks[h].pc = "check_cancelled"
                  /\ tasks'[h].pc # "check_cancelled") =>
                 /\ tasks'[h].pc = "cancelled"
                 /\ queue' = Append(queue, [h |-> h, type |-> "cancel",
                                            percent |-> 0])
            /\ (TerminalStepOf(h) /\ tasks[h].pc = "cancelled") =>
                 /\ Head(queue).type = "cancel"
                 /\ last'.op = "cancelled"
                 /\ TerminalsOf(h)' = <<"cancel">>
       /\ last'.op = "cancel_work" =>
            \A h \in DOMAIN tasks :
              /\ tasks'[h].pc = tasks[h].pc
              /\ tasks'[h].alive = tasks[h].alive
              /\ queue' = queue]_vars

C12_Witness ==
    /\ last.op = "cancelled"
    /\ outcome = "cancelled"
    /\ \E h \in DOMAIN tasks :
         /\ tasks[h].pc = "cancelled"
         /\ TerminalsOf(h) = <<"cancel">>
         /\ ~tasks[h].alive

\* The work function of handle h makes no check_cancelled call any more.
PastLastCheck(h) ==
    \/ tasks[h].req.fn = "fetch_items" /\ tasks[h].pc \notin FinalPcs
    \/ /\ tasks[h].req.fn = "work"
       /\ tasks[h].pc \in {"create_session", "progress100", "return"}

\* C13: a task that is cancelled when its work function has no
\* check_cancelled call ahead (fetch_items never checks; `work` is past its
\* only check) never ends as cancelled and never hands on_cancel to the main
\* thread; when its work function returns, on_done is handed over, and the
\* callback then run is the request's on_done with the result (items_done
\* installs the items fetched).
C13_LastCheckWins ==
    [][\A h \in DOMAIN tasks :
         /\ (tasks[h].cancelled /\ PastLastCheck(h)) =>
              /\ tasks'[h].pc # "cancelled"
              /\ \A i \in 1..Len(queue') :
                   queue'[i].h = h => queue'[i].type # "cancel"
              /\ tasks'[h].pc = "returned" =>
                   queue' = Append(queue, [h |-> h, type |-> "done",
                                           percent |-> 0])
         /\ (TerminalStepOf(h) /\ tasks[h].cancelled
               /\ tasks[h].pc = "returned") =>
              /\ Head(queue).type = "done"
              /\ last'.op = tasks[h].req.on_done
              /\ TerminalsOf(h)' = <<"done">>
              /\ tasks[h].req.fn = "fetch_items" =>
                   media_items' = tasks[h].st.all_items]_vars

C13_Witness ==
    \E h \in DOMAIN tasks :
      /\ tasks[h].req.fn = "fetch_items"
      /\ tasks[h].cancelled
      /\ tasks[h].pc = "returned"
      /\ Len(tasks[h].st.all_items) = 3
      /\ queue = <<[h |-> h, type |-> "done", percent |-> 0]>>

\* The messages of handle h waiting for the main thread, oldest first.
QueueOf(h) == SelectSeq(queue, LAMBDA m : m.h = h)

C14_QueueOrder ==
    \A h \in DOMAIN tasks :
      LET q == QueueOf(h) IN
      /\ \A i \in 1..Len(q) : q[i].type \in Terminal => i = Len(q)
      /\ \A i, j \in 1..Len(q) :
           (i < j /\ q[i].type = "progress" /\ q[j].type = "progress") =>
             q[i].percent < q[j].percent
      /\ TerminalsOf(h) # <<>> => q = <<>>
      /\ \A i \in 1..Len(tasks[h].log) :
           tasks[h].log[i] \in Terminal => i = Len(tasks[h].log)

C14_DeliveryOrder ==
    /\ last'.op = "progress" =>
         /\ queue # <<>>
         /\ queue' = Tail(queue)
         /\ Head(queue).type = "progress"
         /\ last'.fx[1].arg = Head(queue).percent
         /\ tasks[Head(queue).h].log =
              IF Head(queue).percent = 100 THEN <<"progress">> ELSE <<>>
    /\ \A h \in DOMAIN tasks :
         TerminalsOf(h) # <<>> => tasks'[h].log = tasks[h].log

\* C14: the reports of a handle wait in the order the work function made them
\* (50 before 100), with its terminal message behind them; the main thread
\* runs `progress` for the oldest message only, so the report of 100 runs
\* after the report of 50 and before the terminal callback; and once the
\* terminal callback of a handle has run, no callback of that handle runs
\* any more.
C14_ProgressBeforeTerminal == []C14_QueueOrder /\ [][C14_DeliveryOrder]_vars

C14_Witness ==
    /\ last.op = "done"
    /\ \E h \in DOMAIN tasks :
         tasks[h].log = <<"progress", "progress", "done">>

\* Error messages of handle h: waiting, and already run.
ErrorsOf(h) ==
    Len(SelectSeq(QueueOf(h), LAMBDA m : m.type = "error"))
      + Len(SelectSeq(tasks[h].log, LAMBDA e : e = "error"))

C15_OneError ==
    \A h \in DOMAIN tasks :
      /\ ErrorsOf(h) = IF tasks[h].pc = "raised" THEN 1 ELSE 0
      /\ tasks[h].pc = "raised" =>
           \A i \in 1..Len(QueueOf(h)) : QueueOf(h)[i].type # "done"
      /\ tasks[h].pc = "raised" => TerminalsOf(h) \in {<<>>, <<"error">>}

C15_Caught ==
    \A h \in DOMAIN tasks :
      /\ (tasks[h].pc # "raised" /\ tasks'[h].pc = "raised") =>
           /\ queue' = Append(queue, [h |-> h, type |-> "error",
                                      percent |-> 0])
           /\ UNCHANGED <<picker, active_worker, current_session_id,
                          poll_timer, timers, media_items, dialog_open,
                          outcome>>
      /\ (TerminalStepOf(h) /\ tasks[h].pc = "raised") =>
           /\ Head(queue).type = "error"
           /\ last'.op = IF tasks[h].req.fn = "work" THEN "error"
                         ELSE "items_error"
           /\ TerminalsOf(h)' = <<"error">>

\* C15: when a work function raises (create_session, a page request or
\* delete_session failed), the step that raises changes nothing of the main
\* thread's state and hands exactly one error message to the main thread;
\* the handle never gets an on_done, and the terminal callback the main
\* thread runs for it is the request's on_error (`error`, `items_error`).
C15_ExceptionToOnError == []C15_OneError /\ [][C15_Caught]_vars

C15_Witness ==
    /\ last.op = "items_error"
    /\ outcome = "fetch_failed"
    /\ \E h \in DOMAIN tasks :
         /\ tasks[h].req.fn = "fetch_items"
         /\ tasks[h].pc = "raised"
         /\ tasks[h].log = <<"error">>

\* The callbacks of the two requests.
Callbacks ==
    {"progress", "done", "cancelled", "error", "items_done", "items_error"}

\* The main-thread state the callbacks work on.
viewvars ==
    <<active_worker, current_session_id, poll_timer, timers, media_items,
      dialog_open, outcome>>

\* C16: a callback body runs only in a step of the main thread that takes the
\* oldest message of the delivery queue, for the slot that message names, and
\* in which no work function moves; the queue grows only by a step of a work
\* function, and such a step runs no callback and leaves the main thread's
\* state alone.
C16_CallbacksOnMainThread ==
    [][/\ last'.op \in Callbacks =>
            /\ queue # <<>>
            /\ queue' = Tail(queue)
            /\ SlotOf(tasks[Head(queue).h].req, Head(queue).type) = last'.op
            /\ \A h \in DOMAIN tasks : tasks'[h].pc = tasks[h].pc
       /\ Len(queue') > Len(queue) => last'.op \in {"work", "fetch_items"}
       /\ last'.op \in {"work", "fetch_items"} =>
            /\ UNCHANGED viewvars
            /\ \A h \in DOMAIN tasks : tasks'[h].log = tasks[h].log]_vars

C16_Witness ==
    /\ last.op = "progress"
    /\ last.fx = <<Fx("dialog", "setValue", 100)>>
    /\ \E h \in DOMAIN tasks :
         tasks[h].pc = "returned" /\ tasks[h].log = <<"progress", "progress">>

(***************************************************************************)
(* Properties of the poll closure's failure paths.                         *)
(***************************************************************************)

\* A poll tick that called get_session.
PollTick ==
    /\ last'.op = "poll"
    /\ last' # last
    /\ picker
    /\ current_session_id # 0

\* C17: a poll tick that gets status SESSION_STATUS_EXPIRED with mediaItemsSet
\* false stops the timer, shows the expiry message, clears the session id and
\* the active handle and submits no task.
C17_Expired ==
    [][(PollTick /\ ~last'.resp.raised /\ ~last'.resp.mediaItemsSet
          /\ last'.resp.status = "SESSION_STATUS_EXPIRED") =>
         /\ RunningTimers' = {}
         /\ \E i \in 1..Len(last'.fx) : last'.fx[i] = Fx("msgbox", "expired", 0)
         /\ \A i \in 1..Len(last'.fx) : last'.fx[i].op # "submit"
         /\ current_session_id' = 0
         /\ active_worker' = 0
         /\ outcome' = "expired"
         /\ tasks' = tasks]_vars

C17_Witness ==
    /\ last.op = "poll"
    /\ last.resp.status = "SESSION_STATUS_EXPIRED"
    /\ ~last.resp.mediaItemsSet
    /\ outcome = "expired"
    /\ RunningTimers = {}
    /\ current_session_id = 0
    /\ active_worker = 0

\* C18: a poll tick on which get_session raises stops the timer, shows the
\* error, clears the session id and the active handle and submits nothing;
\* get_session is only ever called by a running timer for its own, recorded
\* session, never for the session of a stopped timer, and a timer that starts
\* running is for a session newer than that of every timer before it: so
\* get_session is not called again for the session of the failed tick.
C18_PollError ==
    [][/\ (PollTick /\ last'.resp.raised) =>
            /\ RunningTimers' = {}
            /\ last'.fx = <<Fx("remote", "get_session",
                               timers[last'.timer].session_id),
                            Fx("msgbox", "error", 0)>>
            /\ current_session_id' = 0
            /\ active_worker' = 0
            /\ outcome' = "poll_failed"
            /\ tasks' = tasks
       /\ \A i \in 1..Len(last'.fx) :
            (last' # last /\ last'.fx[i].what = "get_session") =>
              /\ timers[last'.timer].running
              /\ last'.fx[i].arg = timers[last'.timer].session_id
              /\ last'.fx[i].arg = current_session_id
              /\ \A t \in DOMAIN timers :
                   ~timers[t].running =>
                     timers[t].session_id # last'.fx[i].arg
       /\ \A t \in RunningTimers' :
            (\A u \in RunningTimers :
               timers[u].session_id # timers'[t].session_id) =>
              \A u \in DOMAIN timers :
                timers[u].session_id < timers'[t].session_id]_vars

C18_Witness ==
    /\ last.op = "poll"
    /\ last.resp.raised
    /\ last.count = 2
    /\ outcome = "poll_failed"
    /\ RunningTimers = {}
    /\ current_session_id = 0
    /\ active_worker = 0

(***************************************************************************)
(* Properties of the remote operations.                                    *)
(***************************************************************************)

\* The create response lacks an id, lacks a pickerUri or carries an error.
BadCreateJson(json) ==
    json.error \/ ~json.id.present \/ ~json.pickerUri.present

\* The create task h has got the response of its POST.
GotCreateResponse(h) ==
    /\ tasks[h].req.fn = "work"
    /\ tasks[h].alive
    /\ tasks[h].pc \in {"raised", "progress100", "return", "returned"}

C19_CreateFails ==
    \A h \in DOMAIN tasks :
      (GotCreateResponse(h) /\ BadCreateJson(tasks[h].json)) =>
        tasks[h].pc = "raised"

C19_NoSession ==
    \A h \in DOMAIN tasks :
      (TerminalStepOf(h) /\ GotCreateResponse(h)) =>
        LET json  == tasks[h].json
            quiet == /\ current_session_id' = 0
                     /\ current_session_id = 0
                     /\ timers' = timers
                     /\ poll_timer' = poll_timer
                     /\ \A i \in 1..Len(last'.fx) : last'.fx[i].op # "browser"
        IN  /\ BadCreateJson(json) =>
                 /\ Head(queue).type = "error"
                 /\ last'.op = "error"
                 /\ last'.fx = <<Fx("msgbox", "error", 0)>>
                 /\ outcome' = "create_failed"
                 /\ quiet
            /\ (~Truthy(json.id) \/ ~Truthy(json.pickerUri)) => quiet

\* C19: a create response that lacks the id key, lacks the pickerUri key or
\* carries an error payload makes create_session raise; the create task then
\* ends through its error path (`error` runs and shows the message), no
\* session id is recorded, the picker URL is not opened and no poll timer is
\* started.  (An id or pickerUri that is present but empty is turned down by
\* `done` with the same three effects.)
C19_CreateResponseValidated == []C19_CreateFails /\ [][C19_NoSession]_vars

C19_Witness ==
    /\ last.op = "error"
    /\ outcome = "create_failed"
    /\ sessions = {1}
    /\ current_session_id = 0
    /\ timers = <<>>

C20_FreshRequests ==
    \A i \in 1..Len(http) :
      /\ http[i].authorization > 0
      /\ http[i].authorization <= credentials.token
      /\ i = Len(http) => http[i].authorization = authorization

C20_CheckFirst ==
    call'.op \in PickerOps =>
      LET c    == credentials
          sent == Append(http, [op |-> call'.op,
                                method |-> HttpMethod(call'.op),
                                authorization |-> credentials'.token])
      IN  IF CredValid(c)
          THEN /\ call'.refresh = "none"
               /\ credentials' = c
               /\ http' = sent
          ELSE IF c.expired /\ c.refresh_token
          THEN /\ call'.refresh \in {"ok", "failed"}
               /\ call'.refresh = "ok" =>
                    /\ CredValid(credentials')
                    /\ credentials'.token # c.token
                    /\ http' = sent
               /\ call'.refresh = "failed" =>
                    /\ call'.error = "RefreshError"
                    /\ credentials' = c
                    /\ http' = http
          ELSE /\ call'.error = "ValueError"
               /\ call'.refresh = "none"
               /\ credentials' = c
               /\ http' = http

\* C20: each of create_session, get_session, delete_session and
\* get_selected_media_items checks the credentials before its request: with
\* valid credentials the request goes out with their token; credentials that
\* are expired and have a refresh token are refreshed first, and the request
\* goes out with the new token (or, the refresh failing, not at all);
\* credentials that are not valid and cannot be refreshed make the operation
\* fail with ValueError, and no HTTP request is issued.  No request ever
\* carries the token of credentials that were not valid when it was sent.
C20_CredentialCheck == []C20_FreshRequests /\ [][C20_CheckFirst]_vars

C20_Witness ==
    /\ call = [op |-> "delete_session", error |-> "ValueError",
               refresh |-> "none"]
    /\ Len(http) = 1
    /\ http[1].op = "create_session"
    /\ credentials.expired

C20_WitnessRefreshed ==
    /\ call.op = "get_selected_media_items"
    /\ call.refresh = "ok"
    /\ credentials.token = 2
    /\ http[Len(http)].authorization = 2

(***************************************************************************)
(* Properties of the fetch task.                                           *)
(***************************************************************************)

\* C21: the pagination loop checks for cancellation at the start of every
\* iteration: a fetch task whose cancelled flag is set when an iteration
\* begins requests no further page and ends as cancelled instead of going on
\* to return items.
C21_CheckEachIteration ==
    [][\A h \in DOMAIN tasks :
         (tasks[h].req.fn = "fetch_items" /\ tasks[h].cancelled
            /\ tasks[h].pc = "paginate"
            /\ tasks'[h].st # tasks[h].st) =>
           /\ tasks'[h].st.requests = tasks[h].st.requests
           /\ tasks'[h].pc = "cancelled"]_vars

\* C22: when a page request of the fetch task raises, the terminal callback
\* run is items_error: it shows the error, leaves the media items installed
\* before as they are, and clears the session id and the active handle.
C22_FetchFailure ==
    [][(FetchTerminalStep /\ tasks[Head(queue).h].st.pc = "raised") =>
         /\ Head(queue).type = "error"
         /\ last'.op = "items_error"
         /\ last'.fx = <<Fx("msgbox", "error", 0)>>
         /\ outcome' = "fetch_failed"
         /\ media_items' = media_items
         /\ current_session_id # 0
         /\ current_session_id' = 0
         /\ active_worker' = 0]_vars

C22_Witness ==
    /\ last.op = "items_error"
    /\ outcome = "fetch_failed"
    /\ media_items = <<<<1, 1>>, <<1, 2>>, <<1, 3>>>>
    /\ current_session_id = 0
    /\ active_worker = 0
    /\ \E h \in DOMAIN tasks :
         tasks[h].req.fn = "fetch_items" /\ tasks[h].pc = "raised"
           /\ delete_calls = <<>>

(***************************************************************************)
(* Properties of the flow's states.                                        *)
(***************************************************************************)

\* The ways a flow ends.
Outcomes ==
    {"done", "expired", "timeout", "poll_failed", "fetch_failed",
     "create_failed", "create_invalid", "cancelled"}

C24_Cleared ==
    outcome # "none" =>
      /\ outcome \in Outcomes
      /\ current_session_id = 0
      /\ active_worker = 0
      /\ RunningTimers = {}
      /\ InFlight = {}

C24_Accepted ==
    (last'.op = "on_refresh_data" /\ picker /\ outcome # "none") =>
      /\ last'.fx = <<Fx("submit", "work", Len(tasks) + 1)>>
      /\ active_worker' = Len(tasks) + 1
      /\ tasks'[active_worker'].req.fn = "work"
      /\ outcome' = "none"

\* C24: whenever a flow has ended (Done, Expired, TimedOut, Failed on poll,
\* Failed on fetch, create failure or invalid create response, create
\* cancelled), the session id and the active handle are empty, no poll timer
\* runs and no task is in flight; a start-session request made then is
\* accepted: it submits a create task instead of showing 'already active'.
C24_TerminalStateCleared == []C24_Cleared /\ [][C24_Accepted]_vars

C24_Witness ==
    /\ last.op = "on_refresh_data"
    /\ last.fx = <<Fx("submit", "work", 2)>>
    /\ tasks[1].log = <<"progress", "cancel">>
    /\ active_worker = 2

\* The session awaits completion: its poll timer runs.
Awaiting == RunningTimers # {}

C25_CountBounded ==
    \A t \in DOMAIN timers : timers[t].poll_count <= MAX_POLLS

C25_LeavesFor ==
    (Awaiting /\ ~Awaiting') =>
      \/ /\ active_worker' \in DOMAIN tasks'
         /\ tasks'[active_worker'].req.fn = "fetch_items"
         /\ tasks'[active_worker'].alive
         /\ outcome' = "none"
      \/ outcome' \in {"expired", "timeout", "poll_failed"}

\* C25: with timer ticks that keep firing, every session that awaits
\* completion stops awaiting, whatever descriptors the server gives: the
\* poll count of a timer never exceeds 300 (so a timer makes at most 301
\* ticks), and when the timer stops the flow is fetching results, or has
\* ended as expired, timed out or failed.
C25_PollingEnds ==
    /\ []C25_CountBounded
    /\ [][C25_LeavesFor]_vars
    /\ (Awaiting ~> ~Awaiting)

C25_Witness ==
    /\ ~Awaiting
    /\ outcome = "timeout"
    /\ last.op = "poll"
    /\ last.count = 301
    /\ ~last.all_active

(***************************************************************************)
(* C26: the recorded session id and the recorded task handle are written   *)
(* by steps of the main thread only (on_refresh_data, the callbacks, the   *)
(* timer tick); no step of a work function (work, fetch_items, load_image) *)
(* changes either of them.                                                 *)
(***************************************************************************)
ControlOps ==
    {"on_refresh_data", "done", "cancelled", "error", "items_done",
     "items_error", "poll"}

WorkOps == {"work", "fetch_items", "load_image"}

C26_MainThreadWrites ==
    [][ /\ (WorkerStep \/ last'.op \in WorkOps) =>
             UNCHANGED <<active_worker, current_session_id>>
        /\ (active_worker' # active_worker
              \/ current_session_id' # current_session_id) =>
             last'.op \in ControlOps ]_vars

\* load_image has just run a step while a session and a handle are recorded.
C26_Witness ==
    /\ last.op = "load_image"
    /\ current_session_id # 0
    /\ active_worker # 0
    /\ \E h \in ImageTasks : tasks[h].pc = "returned"

(***************************************************************************)
(* C27: whatever page_size is asked for, the pageSize parameter sent is    *)
(* the smaller of page_size and 100, so it is never above 100; the         *)
(* pageToken parameter is sent exactly when the token given is a non-empty *)
(* string, and is then that token.                                         *)
(***************************************************************************)
C27_PageSizeCapped ==
    \A i \in DOMAIN http :
      LET params == http[i].params
          asked  == call.page_size
          token  == call.page_token
      IN  /\ params["pageSize"] <= 100
          /\ params["pageSize"] <= asked
          /\ params["pageSize"] \in {asked, 100}
          /\ "pageToken" \in DOMAIN params <=>
                (token.present /\ token # PyEmpty)
          /\ "pageToken" \in DOMAIN params =>
                params["pageToken"] = token.val

\* A request for more than 100 items a page, with a token, has been sent.
C27_Witness ==
    /\ http # <<>>
    /\ call.page_size > 100
    /\ http[1].params["pageSize"] = 100
    /\ "pageToken" \in DOMAIN http[1].params
    /\ http[1].params["pageToken"] = call.page_token.val

\* A request with the empty token has been sent without a pageToken.
C27_WitnessNoToken ==
    /\ http # <<>>
    /\ call.page_token = PyEmpty
    /\ call.page_size < 100
    /\ DOMAIN http[1].params = {"sessionId", "pageSize"}

(***************************************************************************)
(* C28: while the poll timer runs, it is the timer self.poll_timer refers  *)
(* to, a session id is recorded, and that id is the one the timer's poll   *)
(* closure was given; a step calls get_session at most once, and only for  *)
(* the session id recorded when the step begins.                           *)
(***************************************************************************)
GetSessionCalls(fx) ==
    {i \in 1..Len(fx) : fx[i].op = "remote" /\ fx[i].what = "get_session"}

C28_TimerBound ==
    \A t \in DOMAIN timers :
      timers[t].running =>
        /\ t = poll_timer
        /\ current_session_id # 0
        /\ timers[t].session_id = current_session_id

C28_OnlyRecorded ==
    last' # last =>
      /\ Cardinality(GetSessionCalls(last'.fx)) <= 1
      /\ \A i \in GetSessionCalls(last'.fx) :
           /\ current_session_id # 0
           /\ last'.fx[i].arg = current_session_id

C28_PollsRecordedSession ==
    /\ []C28_TimerBound
    /\ [][C28_OnlyRecorded]_vars

\* The timer of session 2 is running and its tick has just asked for
\* session 2, after an earlier request that left session 1 on the server.
C28_Witness ==
    /\ current_session_id = 2
    /\ poll_timer # 0
    /\ timers[poll_timer].running
    /\ timers[poll_timer].poll_count >= 2
    /\ last.op = "poll"
    /\ GetSessionCalls(last.fx) # {}
    /\ \A i \in GetSessionCalls(last.fx) : last.fx[i].arg = 2

(***************************************************************************)
(* C29: a descriptor that fails the completion test and whose status is    *)
(* not SESSION_STATUS_EXPIRED (the status may be ACTIVE, UNSPECIFIED,      *)
(* missing or unrecognised) is handled as an active session: the poll      *)
(* closure shows nothing, changes nothing of the flow and leaves its timer *)
(* running with one more poll counted, or, once the poll budget is used    *)
(* up, ends with the timeout as it does for an active session; the         *)
(* blocking wait goes round its loop again or raises TimeoutError, and     *)
(* never reaches its "Unknown session status" raise.                       *)
(***************************************************************************)
StillActive(resp) ==
    /\ ~resp.raised
    /\ ~resp.mediaItemsSet
    /\ resp.status \notin {"SESSION_STATUS_COMPLETE", "SESSION_STATUS_EXPIRED"}

C29_PollContinues ==
    (PollTick /\ StillActive(last'.resp)) =>
      IF last'.count <= 300
      THEN /\ timers'[last'.timer].running
           /\ timers'[last'.timer].poll_count = last'.count
           /\ last'.fx = <<Fx("remote", "get_session", current_session_id)>>
           /\ UNCHANGED <<current_session_id, active_worker, poll_timer,
                          tasks, queue, dialog_open, sessions, delete_calls,
                          outcome, media_items>>
      ELSE /\ outcome' = "timeout"
           /\ RunningTimers' = {}

WaitPass ==
    /\ call'.op = "wait_for_session_completion"
    /\ Len(http') = Len(http) + 1

C29_WaitContinues ==
    (WaitPass /\ StillActive(call'.resp)) =>
      call'.pc \in {"loop", "TimeoutError"}

C29_NoUnknownStatus ==
    call.op = "wait_for_session_completion" =>
      call.pc # "RuntimeError_unknown"

C29_OtherStatusesActive ==
    /\ [][C29_PollContinues /\ C29_WaitContinues]_vars
    /\ []C29_NoUnknownStatus

\* The poll closure has got an unrecognised status and its timer runs on.
C29_Witness ==
    /\ last.op = "poll"
    /\ last.resp.status = "OTHER"
    /\ ~last.resp.mediaItemsSet
    /\ last.count >= 2
    /\ poll_timer # 0
    /\ timers[poll_timer].running
    /\ timers[poll_timer].poll_count = last.count

\* The blocking wait has got a descriptor without a status and one with
\* SESSION_STATUS_UNSPECIFIED or an unrecognised one, and is in its loop.
C29_WitnessWait ==
    /\ call.op = "wait_for_session_completion"
    /\ call.pc = "loop"
    /\ Len(http) >= 2
    /\ call.resp.status \in {"OTHER", "SESSION_STATUS_UNSPECIFIED"}

(***************************************************************************)
(* C30: a descriptor with mediaItemsSet true and status                    *)
(* SESSION_STATUS_EXPIRED counts as complete: the poll closure stops its   *)
(* timer and submits fetch_items for the recorded session, keeps the       *)
(* session id, shows no expiry message and does not end the request as     *)
(* expired; the blocking wait returns the descriptor instead of raising.   *)
(***************************************************************************)
SetAndExpired(resp) ==
    /\ ~resp.raised
    /\ resp.mediaItemsSet
    /\ resp.status = "SESSION_STATUS_EXPIRED"

C30_PollFetches ==
    (PollTick /\ SetAndExpired(last'.resp)) =>
      /\ Len(tasks') = Len(tasks) + 1
      /\ SubSeq(tasks', 1, Len(tasks)) = tasks
      /\ tasks'[Len(tasks')].req.fn = "fetch_items"
      /\ tasks'[Len(tasks')].session_id = current_session_id
      /\ tasks'[Len(tasks')].alive
      /\ active_worker' = Len(tasks')
      /\ RunningTimers' = {}
      /\ UNCHANGED <<current_session_id, outcome, dialog_open, sessions,
                     delete_calls, media_items>>
      /\ outcome' # "expired"
      /\ \A i \in 1..Len(last'.fx) : last'.fx[i].op # "msgbox"

C30_WaitReturns ==
    (WaitPass /\ SetAndExpired(call'.resp)) => call'.pc = "return"

C30_CompletionBeforeExpiry ==
    [][C30_PollFetches /\ C30_WaitReturns]_vars

\* The poll closure has got such a descriptor and its fetch task is there.
C30_Witness ==
    /\ last.op = "poll"
    /\ SetAndExpired(last.resp)
    /\ active_worker = Len(tasks)
    /\ active_worker # 0
    /\ tasks[active_worker].req.fn = "fetch_items"
    /\ tasks[active_worker].pc = "start"
    /\ current_session_id # 0
    /\ outcome = "none"

\* The blocking wait has returned such a descriptor.
C30_WitnessWait ==
    /\ call.op = "wait_for_session_completion"
    /\ call.pc = "return"
    /\ SetAndExpired(call.resp)

(***************************************************************************)
(* Properties of session cleanup.                                          *)
(***************************************************************************)

\* A delete_session call has been issued for session sid.
DeleteIssuedFor(sid) ==
    \E i \in DOMAIN delete_calls : delete_calls[i] = sid

\* Handle h is a fetch task.
IsFetch(h) == tasks[h].req.fn = "fetch_items"

\* The fetch task issues its delete_session call once the pagination has
\* returned its list, while the session is still the recorded one and
\* before any terminal callback of the task has run.
C31_IssuedAfterPages ==
    \A h \in DOMAIN tasks :
      (IsFetch(h) /\ tasks[h].pc = "delete_session"
         /\ tasks'[h].pc # "delete_session") =>
        /\ tasks[h].st.pc = "returned"
        /\ delete_calls' = Append(delete_calls, tasks[h].session_id)
        /\ last'.fx = <<Fx("remote", "delete_session", tasks[h].session_id)>>
        /\ TerminalsOf(h) = <<>>
        /\ current_session_id = tasks[h].session_id
        /\ media_items' = media_items

\* items_done runs only for a task whose delete_session call was issued.
C31_IssuedBeforeInstall ==
    \A h \in DOMAIN tasks :
      (IsFetch(h) /\ TerminalStepOf(h) /\ last'.op = "items_done") =>
        /\ DeleteIssuedFor(tasks[h].session_id)
        /\ tasks[h].st.pc = "returned"

\* A page request that raises ends the work function with no
\* delete_session call issued, and none is issued for that session later.
C31_NoneAfterRaise ==
    \A h \in DOMAIN tasks :
      /\ (IsFetch(h) /\ tasks[h].pc = "paginate"
            /\ tasks'[h].st.pc = "raised") =>
           /\ tasks'[h].pc = "raised"
           /\ ~DeleteIssuedFor(tasks[h].session_id)'
      /\ (IsFetch(h) /\ tasks[h].pc = "raised"
            /\ ~DeleteIssuedFor(tasks[h].session_id)) =>
           /\ tasks'[h].pc = "raised"
           /\ ~DeleteIssuedFor(tasks[h].session_id)'

\* C31: the fetch task issues delete_session for its session only after
\* get_all_selected_media_items has returned (the last page is fetched) and
\* before items_done installs the results; when a page request raises, no
\* delete_session call is issued for that session, then or later.
C31_DeleteAfterLastPage ==
    [][C31_IssuedAfterPages /\ C31_IssuedBeforeInstall
         /\ C31_NoneAfterRaise]_vars

C31_Witness ==
    /\ last.op = "items_done"
    /\ media_items # <<>>
    /\ delete_calls = <<1>>
    /\ \E h \in DOMAIN tasks :
         IsFetch(h) /\ tasks[h].session_id = 1
           /\ tasks[h].log = <<"done">>

C31_WitnessRaised ==
    /\ last.op = "items_error"
    /\ 1 \in sessions
    /\ \E h \in DOMAIN tasks :
         IsFetch(h) /\ tasks[h].session_id = 1 /\ tasks[h].pc = "raised"
           /\ ~DeleteIssuedFor(1)

\* No session id has two delete_session calls.
C32_AtMostOnce ==
    \A i, j \in DOMAIN delete_calls :
      delete_calls[i] = delete_calls[j] => i = j

\* A step that issues delete_session is the tick that times the session out
\* or the step of a fetch task whose pagination has returned; it issues one
\* call, for the recorded session.
C32_OnlyTimeoutOrFetched ==
    delete_calls' # delete_calls =>
      /\ delete_calls' = Append(delete_calls, current_session_id)
      /\ current_session_id # 0
      /\ \/ /\ last'.op = "poll"
            /\ outcome' = "timeout"
            /\ PollTimedOut(last'.count)
         \/ /\ last'.op = "fetch_items"
            /\ \E h \in DOMAIN tasks :
                 /\ IsFetch(h)
                 /\ tasks[h].session_id = current_session_id
                 /\ tasks[h].pc = "delete_session"
                 /\ tasks[h].st.pc = "returned"

\* The ticks that end the flow as expired or as failed issue no call.
C32_NoneOnExpiredOrError ==
    (last'.op = "poll" /\ last' # last
       /\ (IsExpired(last'.resp) \/ last'.resp.raised)
       /\ ~IsComplete(last'.resp)) =>
      /\ delete_calls' = delete_calls
      /\ sessions' = sessions
      /\ Len(last'.fx) <= 2

\* C32: over the runs of the session flow, delete_session is issued at most
\* once for a session id, and only by the tick that times the session out
\* or by the fetch task after its pagination has returned; the tick that
\* finds the session expired and the tick whose get_session raised issue no
\* delete_session.
C32_DeleteOncePerSession ==
    /\ []C32_AtMostOnce
    /\ [][C32_OnlyTimeoutOrFetched /\ C32_NoneOnExpiredOrError]_vars

C32_Witness ==
    /\ delete_calls = <<1, 2>>
    /\ last.op = "fetch_items"
    /\ \E h \in DOMAIN tasks :
         IsFetch(h) /\ tasks[h].session_id = 2
           /\ tasks[h].pc \in {"progress100", "raised"}

C32_WitnessExpired ==
    /\ last.op = "poll"
    /\ outcome = "expired"
    /\ delete_calls = <<>>
    /\ sessions = {1}

C32_WitnessPollError ==
    /\ last.op = "poll"
    /\ outcome = "poll_failed"
    /\ delete_calls = <<>>
    /\ sessions = {1}

\* The main thread runs `cancelled` for the create task h.
CancelledStepOf(h) ==
    /\ TerminalStepOf(h)
    /\ tasks[h].req.fn = "work"
    /\ Head(queue).type = "cancel"

\* When `cancelled` runs no session id is recorded, so it issues no
\* delete_session call and leaves the sessions of the server as they are;
\* it is the one terminal callback of its handle.
C33_CancelFindsNoSession ==
    \A h \in DOMAIN tasks :
      CancelledStepOf(h) =>
        /\ current_session_id = 0
        /\ current_session_id' = 0
        /\ last'.op = "cancelled"
        /\ last'.fx = <<>>
        /\ delete_calls' = delete_calls
        /\ sessions' = sessions
        /\ active_worker' = 0
        /\ TerminalsOf(h)' = <<"cancel">>

\* A session id is recorded by `done` only.
C33_RecordedByDone ==
    (current_session_id' # current_session_id /\ current_session_id' # 0) =>
      /\ last'.op = "done"
      /\ Head(queue).type = "done"
      /\ tasks[Head(queue).h].req.fn = "work"

\* C33: whenever the on_cancel callback of the create task runs, no session
\* id is recorded (the id is recorded by on_done only, and one terminal
\* callback runs per handle), so the callback issues no delete_session and
\* removes no session from the server.
C33_CancelIssuesNoDelete ==
    [][C33_CancelFindsNoSession /\ C33_RecordedByDone]_vars

C33_Witness ==
    /\ last.op = "cancelled"
    /\ outcome = "cancelled"
    /\ sessions = {1}
    /\ delete_calls = <<>>
    /\ Len(tasks) = 2
    /\ tasks[2].log = <<"progress", "cancel">>

(***************************************************************************)
(* Properties of the two pollers taken together.                           *)
(***************************************************************************)

\* The blocking wait takes the answer the tick took.
WaitTakesSame ==
    /\ call.pc = "loop"
    /\ call'.pc # call.pc \/ http' # http
    /\ last.op = "poll"

\* What the tick made of its answer, read from what it did.
TickClass ==
    IF \E i \in DOMAIN last.fx : last.fx[i].what = "fetch_items"
    THEN "complete"
    ELSE IF outcome = "expired" THEN "expired"
    ELSE IF outcome = "poll_failed" THEN "raised"
    ELSE IF outcome = "timeout" \/ RunningTimers # {} THEN "active"
    ELSE "other"

\* What the blocking wait made of its answer, read from where it went.
WaitClass ==
    CASE call.pc = "return"               -> "complete"
      [] call.pc = "RuntimeError_expired" -> "expired"
      [] call.pc = "raised"               -> "raised"
      [] call.pc \in {"loop", "TimeoutError"} -> "active"
      [] OTHER                            -> "other"

\* C34: the poll tick and the blocking wait make the same of every answer
\* of get_session: on the same sequence of answers, the tick that submits
\* the fetch is the pass of the wait that returns, the tick that ends the
\* flow as expired is the pass that raises for expiry, and on every other
\* descriptor both go on waiting or give up for their own timeout.
C34_SameClassification ==
    [][WaitTakesSame =>
         /\ call'.resp = last.resp
         /\ Len(http') = TicksSoFar
         /\ WaitClass' = TickClass
         /\ WaitClass' # "other"]_vars

C34_Witness ==
    /\ call.pc = "return"
    /\ Len(http) = 3
    /\ call.resp.status = SESSION_STATUS_COMPLETE
    /\ ~call.resp.mediaItemsSet
    /\ RunningTimers = {}
    /\ last.count = 3
    /\ active_worker = 3
    /\ IsFetch(3)

C34_WitnessExpired ==
    /\ call.pc = "RuntimeError_expired"
    /\ Len(http) = 2
    /\ outcome = "expired"
    /\ last.count = 2

C34_WitnessTimeouts ==
    /\ call.pc = "TimeoutError"
    /\ Len(http) = 2
    /\ RunningTimers # {}
    /\ last.count = 2

C34_WitnessPollTimeout ==
    /\ call.pc = "loop"
    /\ Len(http) = 301
    /\ outcome = "timeout"

(***************************************************************************)
(* The guard at the head of the poll closure.                              *)
(***************************************************************************)

\* The guard of the poll closure is met: no client, or no session id.
PollGuardMet == ~picker \/ current_session_id = 0

\* A timer runs only while a client is set and a session id is recorded:
\* every handler that clears the id has stopped the timer in the same step,
\* so no tick finds the guard met.
TickFindsSession == RunningTimers # {} => ~PollGuardMet

(***************************************************************************)
(* Properties of the recent-files list.                                    *)
(***************************************************************************)

\* The lists get_recent_files of Settings can give for the stored value.
StoredLists == {get_str_list(value) : value \in QValue(qs.recent_files)}

NoDuplicates(l) == \A i, j \in DOMAIN l : l[i] = l[j] => i = j

\* The maximum in force.
CurrentMax == get_max_recent_files(qs.max_recent_files)

C36_WitnessMoved ==
    /\ last.op = "add_recent_file"
    /\ CurrentMax = default_max_recent
    /\ StoredLists = {<<2, 1, 3>>}

C36_WitnessFloor ==
    /\ last.op = "add_recent_file"
    /\ qs.max_recent_files = QInt(0)
    /\ StoredLists = {<<3>>}

====
